---- MODULE Spec2Model ----
(***************************************************************************)
(* A model of the accessibility core of content-accessibility-utility:     *)
(*   - StyleResolver (utils/style_resolver.py): the simplified cascade;    *)
(*   - ColorContrastCheck (audit/checks/color_contrast_checks.py);         *)
(*   - TabOrderCheck (audit/checks/tab_order_checks.py) and                *)
(*     TabOrderRemediation (remediate/remediation_strategies/              *)
(*     tab_order_remediation.py).                                          *)
(* Each subsystem has its own variables and its own specification; the     *)
(* variables of the other subsystems stay at their idle value.             *)
(***************************************************************************)
EXTENDS Integers, Sequences, FiniteSets, TLC

VARIABLES
    \* --- StyleResolver ---
    sdoc,          \* the elements of the document, sdoc[i].parent = 0 is [document]
    parsed_rules,  \* StyleResolver.parsed_rules, in source order
    squery,        \* the call made: <<element, property>> of get_computed_style or
                   \* <<function, element, argument>>; <<>> before it
    sresult,       \* its return value
    \* --- ColorContrastCheck (on sdoc and parsed_rules) ---
    contrast_level, \* "AA" or "AAA"
    cissues,        \* the issues reported through add_issue, in order
    cstate,         \* "idle" before check(), then "done" or "raised"
    \* --- TabOrderRemediation ---
    html_content,  \* the document as it was given to __init__
    soup,          \* the parsed document the steps work on
    issues,        \* the issues given to __init__
    options,       \* the options given to __init__
    changes,       \* the changes logged so far
    pc,            \* the step remediate() is about to run; "idle", "done", "raised"
    returned,      \* the change logs the earlier calls of remediate() returned
    \* --- _sort_by_visual_position, called on its own ---
    elements_with_position, \* the argument
    sorted_elements,        \* TabOrderRemediation's answer, <<>> before the call
    check_sorted_elements,  \* TabOrderCheck's answer, <<>> before the call
    sort_calls,             \* the implementations called so far
    \* --- RemediationManager ---
    msoup,             \* RemediationManager.soup
    bedrock_client,    \* RemediationManager.bedrock_client, None without one
    given_issues,      \* the argument of remediate_issues, <<>> before the call
    tab_order_issues,  \* the argument of remediate_tab_order_issues
    validation_result, \* what validate_and_enhance returned, <<>> before it
    tab_order_result,  \* the result of remediate_tab_order_issues so far
    results,           \* the results of remediate_issues so far
    mpc                \* the manager's position

svars == <<sdoc, parsed_rules, squery, sresult>>
cvars == <<contrast_level, cissues, cstate>>
tvars == <<html_content, soup, issues, options, changes, pc, returned>>
pvars == <<elements_with_position, sorted_elements, check_sorted_elements, sort_calls>>
mvars == <<msoup, bedrock_client, given_issues, tab_order_issues, validation_result,
           tab_order_result, results, mpc>>

vars == <<sdoc, parsed_rules, squery, sresult, contrast_level, cissues, cstate,
          html_content, soup, issues, options, changes, pc, returned,
          elements_with_position, sorted_elements, check_sorted_elements, sort_calls,
          msoup, bedrock_client, given_issues, tab_order_issues, validation_result,
          tab_order_result, results, mpc>>

\* Python's None; also "attribute absent".
None == "None"

\* A string the code looks into (a CSS value, a colour) is the sequence of
\* its characters; NoneStr is None where such a string is expected.
NoneStr == <<None>>

----------------------------------------------------------------------------
(* Generic helpers: Python list.sort is stable.                            *)

\* The empty dict.
EmptyDict == [k \in {} |-> None]

\* Lexicographic order on (id_count, class_count, element_count) tuples.
TupleLess(a, b) ==
    \/ a[1] < b[1]
    \/ a[1] = b[1] /\ a[2] < b[2]
    \/ a[1] = b[1] /\ a[2] = b[2] /\ a[3] < b[3]

----------------------------------------------------------------------------
(* StyleResolver                                                           *)

\* _parse_properties: a declaration list "p1:v1; p2:v2" to a dict; a later
\* declaration of the same property overwrites an earlier one.
RECURSIVE _parse_properties(_)
_parse_properties(decls) ==
    IF decls = <<>> THEN EmptyDict
    ELSE LET last == decls[Len(decls)]
         IN  (last[1] :> last[2]) @@ _parse_properties(SubSeq(decls, 1, Len(decls) - 1))

\* _calculate_specificity for the selector shapes of the model.
_calculate_specificity(selector) ==
    CASE selector.kind = "element"       -> <<0, 0, 1>>
      [] selector.kind = "id"            -> <<1, 0, 0>>
      [] selector.kind = "class"         -> <<0, 1, 0>>
      [] selector.kind = "element.class" -> <<0, 1, 1>>

\* _parse_css_text: one rule per block, in source order; a block with no
\* declaration yields no rule.
RECURSIVE _parse_css_text(_)
_parse_css_text(blocks) ==
    IF blocks = <<>> THEN <<>>
    ELSE LET b     == blocks[Len(blocks)]
             props == _parse_properties(b.decls)
             front == _parse_css_text(SubSeq(blocks, 1, Len(blocks) - 1))
         IN  IF DOMAIN props # {}
             THEN Append(front, [selector    |-> b.selector,
                                 properties  |-> props,
                                 specificity |-> _calculate_specificity(b.selector)])
             ELSE front

\* _element_matches_selector, in the order of the code's tests.
_element_matches_selector(doc, e, selector) ==
    CASE selector.kind = "element"       -> doc[e].name = selector.elem
      [] selector.kind = "id"            -> doc[e].id = selector.ident
      [] selector.kind = "class"         -> selector.cls \in doc[e].class
      [] selector.kind = "element.class" ->
             doc[e].name = selector.elem /\ selector.cls \in doc[e].class

\* _get_inline_style_property: None when there is no style attribute or the
\* property is not in it.
_get_inline_style_property(doc, e, property_name) ==
    IF doc[e].style = <<>> THEN NoneStr
    ELSE LET properties == _parse_properties(doc[e].style)
         IN  IF property_name \in DOMAIN properties
             THEN properties[property_name] ELSE NoneStr

\* _get_default_value
_get_default_value(property_name) ==
    CASE property_name = "color"            -> <<"#", "0", "0", "0", "0", "0", "0">>
      [] property_name = "background-color" -> <<"t", "r", "a", "n", "s", "p", "a", "r", "e", "n", "t">>
      [] property_name = "font-size"        -> <<"1", "6", "p", "x">>
      [] property_name = "font-weight"      -> <<"n", "o", "r", "m", "a", "l">>
      [] OTHER                              -> NoneStr

\* The rules of parsed_rules that match e and declare the property, in
\* source order (the loop of lines 214-218).
RECURSIVE MatchingRules(_, _, _, _)
MatchingRules(rules, doc, e, property_name) ==
    IF rules = <<>> THEN <<>>
    ELSE LET r     == rules[Len(rules)]
             front == MatchingRules(SubSeq(rules, 1, Len(rules) - 1), doc, e, property_name)
         IN  IF /\ _element_matches_selector(doc, e, r.selector)
                /\ property_name \in DOMAIN r.properties
             THEN Append(front, r) ELSE front

\* list.sort(key=specificity, reverse=True): stable, so rules of equal
\* specificity keep their source order. Insertion of r after every rule
\* whose specificity is not lower.
\* The sort without reverse=True: lowest specificity first.
RECURSIVE InsertBySpecificityAscending(_, _)
InsertBySpecificityAscending(sorted, r) ==
    IF sorted = <<>> THEN <<r>>
    ELSE IF TupleLess(r.specificity, sorted[1].specificity)
         THEN <<r>> \o sorted
         ELSE <<sorted[1]>> \o InsertBySpecificityAscending(Tail(sorted), r)

RECURSIVE InsertBySpecificity(_, _)
InsertBySpecificity(sorted, r) ==
    IF sorted = <<>> THEN <<r>>
    ELSE IF TupleLess(sorted[1].specificity, r.specificity)
         THEN <<r>> \o sorted
         ELSE <<sorted[1]>> \o InsertBySpecificity(Tail(sorted), r)

RECURSIVE SortBySpecificity(_)
SortBySpecificity(rules) ==
    IF rules = <<>> THEN <<>>
    ELSE InsertBySpecificity(SortBySpecificity(SubSeq(rules, 1, Len(rules) - 1)),
                             rules[Len(rules)])

\* get_computed_style: inline, then rules, then inheritance (color only),
\* then the default.  A falsy inline value (the empty string) is skipped.
RECURSIVE get_computed_style(_, _, _, _)
get_computed_style(rules, doc, e, property_name) ==
    LET inline_value   == _get_inline_style_property(doc, e, property_name)
        matching_rules == SortBySpecificity(MatchingRules(rules, doc, e, property_name))
    IN  IF inline_value # NoneStr /\ inline_value # <<>>
        THEN inline_value
        ELSE IF matching_rules # <<>>
        THEN matching_rules[1].properties[property_name]
        ELSE IF property_name = "color" /\ doc[e].parent # 0
        THEN get_computed_style(rules, doc, doc[e].parent, property_name)
        ELSE _get_default_value(property_name)

----------------------------------------------------------------------------
(* Characters and numbers in strings.                                      *)

UpperLetters == <<"A", "B", "C", "D", "E", "F", "G", "H", "I", "J", "K", "L", "M",
                  "N", "O", "P", "Q", "R", "S", "T", "U", "V", "W", "X", "Y", "Z">>
LowerLetters == <<"a", "b", "c", "d", "e", "f", "g", "h", "i", "j", "k", "l", "m",
                  "n", "o", "p", "q", "r", "s", "t", "u", "v", "w", "x", "y", "z">>
Digits == <<"0", "1", "2", "3", "4", "5", "6", "7", "8", "9">>

\* str.lower() and str.upper(), character by character.
LowerChar(c) ==
    IF \E i \in 1..26 : UpperLetters[i] = c
    THEN LowerLetters[CHOOSE i \in 1..26 : UpperLetters[i] = c] ELSE c
UpperChar(c) ==
    IF \E i \in 1..26 : LowerLetters[i] = c
    THEN UpperLetters[CHOOSE i \in 1..26 : LowerLetters[i] = c] ELSE c
Lower(str) == [i \in 1..Len(str) |-> LowerChar(str[i])]
Upper(str) == [i \in 1..Len(str) |-> UpperChar(str[i])]

IsDigit(c) == \E i \in 1..10 : Digits[i] = c
DigitVal(c) == (CHOOSE i \in 1..10 : Digits[i] = c) - 1

\* A hexadecimal digit in either case, and its value.
IsHexDigit(c) == IsDigit(c) \/ \E i \in 1..6 : LowerLetters[i] = LowerChar(c)
HexVal(c) ==
    IF IsDigit(c) THEN DigitVal(c)
    ELSE 9 + (CHOOSE i \in 1..6 : LowerLetters[i] = LowerChar(c))

StartsWith(str, prefix) ==
    Len(str) >= Len(prefix) /\ SubSeq(str, 1, Len(prefix)) = prefix

\* The index after the blanks (\s*) that start at i.
RECURSIVE SkipSpaces(_, _)
SkipSpaces(str, i) ==
    IF i <= Len(str) /\ str[i] = " " THEN SkipSpaces(str, i + 1) ELSE i

\* str.rstrip() and str.strip() on blanks.
RECURSIVE RStrip(_)
RStrip(str) ==
    IF str # <<>> /\ str[Len(str)] = " " THEN RStrip(SubSeq(str, 1, Len(str) - 1)) ELSE str
Strip(str) == RStrip(SubSeq(str, SkipSpaces(str, 1), Len(str)))

\* The index after the digits (\d*) that start at i.
RECURSIVE SkipDigits(_, _)
SkipDigits(str, i) ==
    IF i <= Len(str) /\ IsDigit(str[i]) THEN SkipDigits(str, i + 1) ELSE i

\* int() of a string of decimal digits.
RECURSIVE DecValue(_)
DecValue(str) ==
    IF str = <<>> THEN 0
    ELSE 10 * DecValue(SubSeq(str, 1, Len(str) - 1)) + DigitVal(str[Len(str)])

\* format(n, "X"): upper-case hexadecimal, no padding.
RECURSIVE HexDigitsOf(_)
HexDigitsOf(n) ==
    LET d == n % 16
        c == IF d < 10 THEN Digits[d + 1] ELSE UpperLetters[d - 9]
    IN  IF n < 16 THEN <<c>> ELSE Append(HexDigitsOf(n \div 16), c)

\* f"{n:02X}": at least two digits, more when n > 255.
Format02X(n) == IF n < 16 THEN <<"0">> \o HexDigitsOf(n) ELSE HexDigitsOf(n)

\* (\d+)\s* at index i, then either the end of the three numbers or
\* ,\s* and the next number: the numbers read, <<>> when the text does not
\* fit.  close: the pattern ends with \) .
RECURSIVE RgbNumbers(_, _, _, _)
RECURSIVE RgbAfterNumber(_, _, _, _)
RgbNumbers(str, i, groups, close) ==
    IF SkipDigits(str, i) = i THEN <<>>
    ELSE RgbAfterNumber(str, SkipSpaces(str, SkipDigits(str, i)),
                        Append(groups, DecValue(SubSeq(str, i, SkipDigits(str, i) - 1))),
                        close)
RgbAfterNumber(str, i, groups, close) ==
    IF Len(groups) = 3
    THEN IF close => (i <= Len(str) /\ str[i] = ")") THEN groups ELSE <<>>
    ELSE IF i <= Len(str) /\ str[i] = ","
         THEN RgbNumbers(str, SkipSpaces(str, i + 1), groups, close)
         ELSE <<>>

\* \(\s* at index i, then the numbers.
RgbOpen(str, i, close) ==
    IF i <= Len(str) /\ str[i] = "("
    THEN RgbNumbers(str, SkipSpaces(str, i + 1), <<>>, close)
    ELSE <<>>

\* The three groups of rgb\(\s*(\d+)\s*,\s*(\d+)\s*,\s*(\d+) matched at the
\* start of the string, <<>> when it does not match there.  alpha: the
\* pattern starts rgba?\( ; close: the pattern ends with \s*\) .
RgbMatch(str, alpha, close) ==
    IF ~StartsWith(str, <<"r", "g", "b">>) THEN <<>>
    ELSE RgbOpen(str, IF alpha /\ Len(str) >= 4 /\ str[4] = "a" THEN 5 ELSE 4, close)

----------------------------------------------------------------------------
(* StyleResolver: colours                                                  *)

Transparent == <<"t", "r", "a", "n", "s", "p", "a", "r", "e", "n", "t">>
Black   == <<"#", "0", "0", "0", "0", "0", "0">>
White   == <<"#", "F", "F", "F", "F", "F", "F">>

\* The named_colors table of _normalize_color.
named_colors ==
    << << <<"b", "l", "a", "c", "k">>,      Black >>,
       << <<"w", "h", "i", "t", "e">>,      White >>,
       << <<"r", "e", "d">>,                <<"#", "F", "F", "0", "0", "0", "0">> >>,
       << <<"g", "r", "e", "e", "n">>,      <<"#", "0", "0", "8", "0", "0", "0">> >>,
       << <<"b", "l", "u", "e">>,           <<"#", "0", "0", "0", "0", "F", "F">> >>,
       << <<"y", "e", "l", "l", "o", "w">>, <<"#", "F", "F", "F", "F", "0", "0">> >>,
       << <<"g", "r", "a", "y">>,           <<"#", "8", "0", "8", "0", "8", "0">> >>,
       << <<"g", "r", "e", "y">>,           <<"#", "8", "0", "8", "0", "8", "0">> >>,
       << Transparent,                      Transparent >> >>

\* StyleResolver._normalize_color: hex of 3 or 6 characters, rgb()/rgba(),
\* the named colours; everything else falls back to black.
_normalize_color(raw) ==
    LET color     == Lower(Strip(raw))
        hex_color == Tail(color)
        rgb_match == RgbMatch(color, TRUE, FALSE)
    IN  IF StartsWith(color, <<"#">>) /\ Len(hex_color) = 3
        THEN Upper(<<"#", hex_color[1], hex_color[1], hex_color[2], hex_color[2],
                     hex_color[3], hex_color[3]>>)
        ELSE IF StartsWith(color, <<"#">>) /\ Len(hex_color) = 6
        THEN Upper(color)
        ELSE IF rgb_match # <<>>
        THEN <<"#">> \o Format02X(rgb_match[1]) \o Format02X(rgb_match[2])
                     \o Format02X(rgb_match[3])
        ELSE IF \E i \in DOMAIN named_colors : named_colors[i][1] = color
        THEN named_colors[CHOOSE i \in DOMAIN named_colors : named_colors[i][1] = color][2]
        ELSE Black

\* get_text_color
get_text_color(rules, doc, e) ==
    LET color == get_computed_style(rules, doc, e, "color")
    IN  IF color # NoneStr /\ color # <<>> THEN _normalize_color(color) ELSE Black

\* get_background_color: the first ancestor-or-self whose computed
\* background-color is not the string "transparent"; white at the root.
RECURSIVE get_background_color(_, _, _)
get_background_color(rules, doc, current) ==
    IF current = 0 THEN White
    ELSE LET bg_color == get_computed_style(rules, doc, current, "background-color")
         IN  IF bg_color # NoneStr /\ bg_color # <<>> /\ bg_color # Transparent
             THEN _normalize_color(bg_color)
             ELSE get_background_color(rules, doc, doc[current].parent)

\* get_font_size
get_font_size(rules, doc, e) == get_computed_style(rules, doc, e, "font-size")

\* get_font_weight
get_font_weight(rules, doc, e) ==
    IF doc[e].name \in {"b", "strong"} THEN <<"b", "o", "l", "d">>
    ELSE get_computed_style(rules, doc, e, "font-weight")

----------------------------------------------------------------------------
(* ColorContrastCheck                                                      *)

\* The check's own _normalize_color (lines 200-224), applied to what its
\* fallback patterns capture.
Check_normalize_color(color) ==
    LET rgb_match == RgbMatch(color, FALSE, TRUE)
    IN  IF StartsWith(color, <<"#">>)
        THEN IF Len(color) = 4
             THEN Upper(<<"#", color[2], color[2], color[3], color[3], color[4], color[4]>>)
             ELSE Upper(color)
        ELSE IF rgb_match # <<>>
        THEN <<"#">> \o Format02X(rgb_match[1]) \o Format02X(rgb_match[2])
                     \o Format02X(rgb_match[3])
        ELSE color

\* What (#[0-9a-fA-F]{3,6}|rgb\(\s*\d+\s*,\s*\d+\s*,\s*\d+\s*\)) captures
\* at the start of a value: "#" and three to six hex digits, or a whole
\* rgb(...); <<>> when neither is there.
RECURSIVE HexRun(_, _, _)
HexRun(str, i, n) ==
    IF n < 6 /\ i <= Len(str) /\ IsHexDigit(str[i]) THEN HexRun(str, i + 1, n + 1) ELSE n

RECURSIVE RgbEnd(_, _)
RgbEnd(str, i) == IF str[i] = ")" THEN i ELSE RgbEnd(str, i + 1)

ColourCapture(value) ==
    IF StartsWith(value, <<"#">>) /\ HexRun(value, 2, 0) >= 3
    THEN SubSeq(value, 1, 1 + HexRun(value, 2, 0))
    ELSE IF RgbMatch(value, FALSE, TRUE) # <<>>
    THEN SubSeq(value, 1, RgbEnd(value, 1))
    ELSE <<>>

\* re.search of "<name>:\s*(...)" in a style attribute: the first
\* declaration, in text order, whose property name ends with <name> and
\* whose value starts with a capture.  "color:" is also found at the end of
\* "background-color:".
NameEndsWith(prop, name) ==
    \/ prop = name
    \/ name = "color" /\ prop = "background-color"

RECURSIVE StyleSearch(_, _)
StyleSearch(style, name) ==
    IF style = <<>> THEN <<>>
    ELSE IF NameEndsWith(style[1][1], name) /\ ColourCapture(style[1][2]) # <<>>
         THEN ColourCapture(style[1][2])
         ELSE StyleSearch(Tail(style), name)

\* ColorContrastCheck._get_text_color
_get_text_color(doc, e) ==
    IF StyleSearch(doc[e].style, "color") # <<>>
    THEN Check_normalize_color(StyleSearch(doc[e].style, "color"))
    ELSE Black

\* ColorContrastCheck._get_background_color: the element's own style, then
\* the ancestors' styles up to <html>.
RECURSIVE ParentBackground(_, _)
ParentBackground(doc, parent) ==
    IF parent = 0 \/ doc[parent].name = "html" THEN White
    ELSE IF StyleSearch(doc[parent].style, "background-color") # <<>>
         THEN Check_normalize_color(StyleSearch(doc[parent].style, "background-color"))
         ELSE ParentBackground(doc, doc[parent].parent)

_get_background_color(doc, e) ==
    IF StyleSearch(doc[e].style, "background-color") # <<>>
    THEN Check_normalize_color(StyleSearch(doc[e].style, "background-color"))
    ELSE ParentBackground(doc, doc[e].parent)

\* _hex_to_rgb: lstrip("#"), then int(.., 16) of the characters 0-1, 2-3
\* and 4-5; the last slice holds one character when only five are there.
\* <<>> stands for the ValueError of a slice that is empty or not made of
\* hex digits.
RECURSIVE LStripHash(_)
LStripHash(str) == IF str # <<>> /\ str[1] = "#" THEN LStripHash(Tail(str)) ELSE str

_hex_to_rgb(hex_color) ==
    LET h == LStripHash(hex_color)
    IN  IF Len(h) >= 6 /\ \A i \in 1..6 : IsHexDigit(h[i])
        THEN << 16 * HexVal(h[1]) + HexVal(h[2]),
                16 * HexVal(h[3]) + HexVal(h[4]),
                16 * HexVal(h[5]) + HexVal(h[6]) >>
        ELSE IF Len(h) = 5 /\ \A i \in 1..5 : IsHexDigit(h[i])
        THEN << 16 * HexVal(h[1]) + HexVal(h[2]),
                16 * HexVal(h[3]) + HexVal(h[4]),
                HexVal(h[5]) >>
        ELSE <<>>

\* _gamma_correct of the channel values 0..255, in units of 1e-5 (rounded).
GammaTable ==
    << 0, 30, 61, 91, 121, 152, 182, 212, 243, 273, 304, 335, 368, 402, 439, 478,
       518, 561, 605, 651, 700, 750, 802, 857, 913, 972, 1033, 1096, 1161, 1229, 1298, 1370,
       1444, 1521, 1600, 1681, 1764, 1850, 1938, 2029, 2122, 2217, 2315, 2416, 2519, 2624, 2732, 2843,
       2956, 3071, 3190, 3310, 3434, 3560, 3689, 3820, 3955, 4092, 4231, 4374, 4519, 4667, 4817, 4971,
       5127, 5286, 5448, 5613, 5781, 5951, 6125, 6301, 6480, 6663, 6848, 7036, 7227, 7421, 7619, 7819,
       8022, 8228, 8438, 8650, 8866, 9084, 9306, 9531, 9759, 9990, 10224, 10462, 10702, 10946, 11193, 11444,
       11697, 11954, 12214, 12477, 12744, 13014, 13287, 13563, 13843, 14126, 14413, 14703, 14996, 15293, 15593, 15896,
       16203, 16513, 16827, 17144, 17465, 17789, 18116, 18447, 18782, 19120, 19462, 19807, 20156, 20508, 20864, 21223,
       21586, 21953, 22323, 22697, 23074, 23455, 23840, 24228, 24620, 25016, 25415, 25818, 26225, 26636, 27050, 27468,
       27889, 28315, 28744, 29177, 29614, 30054, 30499, 30947, 31399, 31855, 32314, 32778, 33245, 33716, 34191, 34670,
       35153, 35640, 36131, 36625, 37124, 37626, 38133, 38643, 39157, 39676, 40198, 40724, 41254, 41789, 42327, 42869,
       43415, 43966, 44520, 45079, 45641, 46208, 46778, 47353, 47932, 48515, 49102, 49693, 50289, 50888, 51492, 52100,
       52712, 53328, 53948, 54572, 55201, 55834, 56471, 57112, 57758, 58408, 59062, 59720, 60383, 61050, 61721, 62396,
       63076, 63760, 64448, 65141, 65837, 66539, 67244, 67954, 68669, 69387, 70110, 70838, 71569, 72306, 73046, 73791,
       74540, 75294, 76052, 76815, 77582, 78354, 79130, 79910, 80695, 81485, 82279, 83077, 83880, 84687, 85499, 86316,
       87137, 87962, 88792, 89627, 90466, 91310, 92158, 93011, 93869, 94731, 95597, 96469, 97345, 98225, 99110, 100000 >>

_gamma_correct(channel) == GammaTable[channel + 1]

\* _relative_luminance, in units of 1e-7.
_relative_luminance(rgb) ==
    (2126 * _gamma_correct(rgb[1]) + 7152 * _gamma_correct(rgb[2])
        + 722 * _gamma_correct(rgb[3])) \div 100

\* _calculate_contrast_ratio as the fraction <<numerator, denominator>> of
\* (lighter + 0.05) / (darker + 0.05), in units of 1e-7.
_calculate_contrast_ratio(color1, color2) ==
    LET l1 == _relative_luminance(_hex_to_rgb(color1))
        l2 == _relative_luminance(_hex_to_rgb(color2))
    IN  IF l1 > l2 THEN <<l1 + 500000, l2 + 500000>>
        ELSE <<l2 + 500000, l1 + 500000>>

\* ratio < threshold, the threshold given in tenths (45 is 4.5).
RatioBelow(ratio, tenths) == 10 * ratio[1] < tenths * ratio[2]

\* The first match of (\d+\.?\d*)(px|pt|em|rem)? in a font-size value:
\* <<size in thousandths, unit>>, the unit "px" when none follows; <<>>
\* when the value holds no digit.
RECURSIVE FirstDigit(_, _)
FirstDigit(str, i) ==
    IF i > Len(str) THEN 0 ELSE IF IsDigit(str[i]) THEN i ELSE FirstDigit(str, i + 1)

FontSizeMatch(str) ==
    LET a     == FirstDigit(str, 1)
        e     == SkipDigits(str, a)
        dot   == e <= Len(str) /\ str[e] = "."
        f     == IF dot THEN SkipDigits(str, e + 1) ELSE e
        frac  == IF dot THEN SubSeq(str, e + 1, f - 1) ELSE <<>>
        frac3 == SubSeq(frac \o <<"0", "0", "0">>, 1, 3)
        rest  == SubSeq(str, f, Len(str))
        unit  == IF StartsWith(rest, <<"p", "x">>) THEN "px"
                 ELSE IF StartsWith(rest, <<"p", "t">>) THEN "pt"
                 ELSE IF StartsWith(rest, <<"e", "m">>) THEN "em"
                 ELSE IF StartsWith(rest, <<"r", "e", "m">>) THEN "rem"
                 ELSE "px"
    IN  IF a = 0 THEN <<>>
        ELSE << 1000 * DecValue(SubSeq(str, a, e - 1)) + DecValue(frac3), unit >>

\* _is_bold
_is_bold(rules, doc, e) ==
    LET font_weight == get_font_weight(rules, doc, e)
    IN  \/ doc[e].name \in {"b", "strong"}
        \/ /\ font_weight # NoneStr /\ font_weight # <<>>
           /\ \/ font_weight = <<"b", "o", "l", "d">>
              \/ font_weight = <<"b", "o", "l", "d", "e", "r">>
              \/ /\ \A i \in DOMAIN font_weight : IsDigit(font_weight[i])
                 /\ DecValue(font_weight) >= 700

\* _is_large_text: the size in millionths of a pixel (pt * 1.333, em and
\* rem * 16) against 24 and 18.67.
_is_large_text(rules, doc, e) ==
    LET font_size_str == get_font_size(rules, doc, e)
        size_match    == FontSizeMatch(font_size_str)
        size          == CASE size_match[2] = "pt" -> size_match[1] * 1333
                           [] size_match[2] \in {"em", "rem"} -> size_match[1] * 16000
                           [] OTHER -> size_match[1] * 1000
    IN  \/ doc[e].name \in {"h1", "h2", "h3"}
        \/ /\ font_size_str # NoneStr /\ font_size_str # <<>>
           /\ size_match # <<>>
           /\ \/ size >= 24000000
              \/ size >= 18670000 /\ _is_bold(rules, doc, e)

\* The tags check() looks at.
TextElements ==
    {"p", "h1", "h2", "h3", "h4", "h5", "h6", "a", "span", "div", "li", "td", "th"}

\* get_element_text(element): the element's own text and its descendants'.
RECURSIVE IsAncestorOrSelf(_, _, _)
IsAncestorOrSelf(doc, a, e) ==
    e # 0 /\ (a = e \/ IsAncestorOrSelf(doc, a, doc[e].parent))

get_element_text(doc, e) == \E d \in DOMAIN doc : doc[d].text /\ IsAncestorOrSelf(doc, e, d)

Issue(type, criterion, severity, e) ==
    [type |-> type, criterion |-> criterion, severity |-> severity, element |-> e]

\* The AA thresholds the other way round.
min_contrast_aa_swapped(is_large_text) == IF is_large_text THEN 45 ELSE 30

\* The required ratios in tenths: 3.0 / 4.5 at AA, 4.5 / 7.0 at AAA.
min_contrast_aa(is_large_text) == IF is_large_text THEN 30 ELSE 45
min_contrast_aaa(is_large_text) == IF is_large_text THEN 45 ELSE 70

\* The two comparisons of check() (lines 103-142) for one element.
CheckRatio(e, level, contrast_ratio, is_large_text) ==
    [issues |->
        (IF RatioBelow(contrast_ratio, min_contrast_aa(is_large_text))
         THEN <<Issue("insufficient-color-contrast", "1.4.3", "major", e)>>
         ELSE <<>>)
        \o
        (IF level = "AAA" /\ RatioBelow(contrast_ratio, min_contrast_aaa(is_large_text))
         THEN <<Issue("insufficient-color-contrast-aaa", "1.4.6", "minor", e)>>
         ELSE <<>>),
     raised |-> FALSE]

\* check() once both colours are chosen (lines 83-142): the undetermined
\* branch, else the ratio; raised when _hex_to_rgb cannot convert a colour.
CheckColours(rules, doc, e, level, text_color, bg_color) ==
    IF \/ text_color = <<>> \/ bg_color = <<>>
       \/ text_color = Transparent \/ bg_color = Transparent
    THEN [issues |-> IF doc[e].style # <<>> \/ doc[e].class # {}
                     THEN <<Issue("potential-color-contrast-issue", "1.4.3", "minor", e)>>
                     ELSE <<>>,
          raised |-> FALSE]
    ELSE IF _hex_to_rgb(text_color) = <<>> \/ _hex_to_rgb(bg_color) = <<>>
    THEN [issues |-> <<>>, raised |-> TRUE]
    ELSE CheckRatio(e, level, _calculate_contrast_ratio(text_color, bg_color),
                    _is_large_text(rules, doc, e))

\* check() after the resolver has answered (lines 66-80): the check's own
\* fallbacks replace an empty or transparent answer.
CheckResolved(rules, doc, e, level, text0, bg0) ==
    CheckColours(rules, doc, e, level,
                 IF text0 = <<>> \/ text0 = Transparent THEN _get_text_color(doc, e) ELSE text0,
                 IF bg0 = <<>> \/ bg0 = Transparent THEN _get_background_color(doc, e) ELSE bg0)

\* The body of check()'s loop for one element: the issues it adds, and
\* whether it raised.
CheckElement(rules, doc, e, level) ==
    IF ~get_element_text(doc, e) THEN [issues |-> <<>>, raised |-> FALSE]
    ELSE CheckResolved(rules, doc, e, level,
                       get_text_color(rules, doc, e), get_background_color(rules, doc, e))

\* ColorContrastCheck.check(): the text elements in document order; an
\* exception ends the loop, the issues already reported stay reported.
RECURSIVE CheckFrom(_, _, _, _)
CheckAfter(rules, doc, e, level, one) ==
    IF one.raised THEN one
    ELSE [issues |-> one.issues \o CheckFrom(rules, doc, e + 1, level).issues,
          raised |-> CheckFrom(rules, doc, e + 1, level).raised]
CheckFrom(rules, doc, e, level) ==
    IF e > Len(doc) THEN [issues |-> <<>>, raised |-> FALSE]
    ELSE IF doc[e].name \notin TextElements THEN CheckFrom(rules, doc, e + 1, level)
    ELSE CheckAfter(rules, doc, e, level, CheckElement(rules, doc, e, level))

----------------------------------------------------------------------------
(* The documents and stylesheets of the StyleResolver specification.       *)

\* Stylesheet blocks per document.
MaxRules == 2

Sel(kind, elem, cls, ident) == [kind |-> kind, elem |-> elem, cls |-> cls, ident |-> ident]

SelP  == Sel("element", "p", None, None)
SelDiv == Sel("element", "div", None, None)
SelX  == Sel("class", None, "x", None)
SelPX == Sel("element.class", "p", "x", None)
SelA  == Sel("id", None, None, "a")

Hex111 == <<"#", "1", "1", "1">>
Hex222 == <<"#", "2", "2", "2">>
Hex333 == <<"#", "3", "3", "3">>
Hex444 == <<"#", "4", "4", "4">>
Hex555 == <<"#", "5", "5", "5">>

Block(selector, decls) == [selector |-> selector, decls |-> decls]

\* The blocks a stylesheet is made of: the four native selector shapes with
\* two colour values, a rule for the parent, a rule for another property and
\* a block without declarations.
StyleBlocks ==
    { Block(s, <<<<"color", v>>>>) : s \in {SelP, SelX, SelPX, SelA}, v \in {Hex222, Hex333} }
    \cup { Block(SelDiv, <<<<"color", Hex555>>>>),
           Block(SelP, <<<<"background-color", Hex222>>>>),
           Block(SelP, <<>>) }

RECURSIVE SeqsUpTo(_, _)
SeqsUpTo(S, n) ==
    IF n = 0 THEN { <<>> }
    ELSE LET shorter == SeqsUpTo(S, n - 1)
         IN  shorter \cup { Append(q, x) : q \in { t \in shorter : Len(t) = n - 1 }, x \in S }

\* <div> parent, <p> child.
StyleDocs ==
    { << [name |-> "div", id |-> None, class |-> {}, style |-> ps, parent |-> 0],
         [name |-> "p", id |-> i, class |-> c, style |-> cs, parent |-> 1] >> :
        ps \in { <<>>, <<<<"color", Hex444>>>> },
        i  \in { None, "a" },
        c  \in { {}, {"x"} },
        cs \in { <<>>, <<<<"color", <<>> >>>>, <<<<"color", Hex111>>>> } }

QueryProps == {"color", "background-color", "font-size"}

\* The other subsystems at rest.
ContrastIdle == contrast_level = "AA" /\ cissues = <<>> /\ cstate = "idle"
StyleIdle == squery = <<>> /\ sresult = NoneStr
TabIdle ==
    /\ html_content = <<>> /\ soup = <<>> /\ issues = <<>> /\ options = <<>>
    /\ changes = <<>> /\ pc = "idle" /\ returned = <<>>
SortIdle ==
    /\ elements_with_position = <<>>
    /\ sorted_elements = <<>> /\ check_sorted_elements = <<>> /\ sort_calls = {}
ManagerIdle ==
    /\ msoup = <<>> /\ bedrock_client = None
    /\ given_issues = <<>> /\ tab_order_issues = <<>>
    /\ validation_result = <<>> /\ tab_order_result = <<>> /\ results = <<>>
    /\ mpc = "idle"

StyleInit ==
    /\ sdoc \in StyleDocs
    /\ \E blocks \in SeqsUpTo(StyleBlocks, MaxRules) : parsed_rules = _parse_css_text(blocks)
    /\ squery = <<>>
    /\ sresult = NoneStr
    /\ ContrastIdle /\ TabIdle /\ SortIdle /\ ManagerIdle

\* One call of get_computed_style(element, property).
GetComputedStyle ==
    /\ squery = <<>>
    /\ \E e \in DOMAIN sdoc, p \in QueryProps :
          /\ squery' = <<e, p>>
          /\ sresult' = get_computed_style(parsed_rules, sdoc, e, p)
    /\ UNCHANGED <<mvars, sdoc, parsed_rules, cvars, tvars, pvars>>

StyleNext == GetComputedStyle

StyleSpec == StyleInit /\ [][StyleNext]_vars

----------------------------------------------------------------------------
(* Claims about the cascade.                                               *)

\* The inline style attribute of e declares the property with a value.
InlineDeclares(e, p) ==
    /\ sdoc[e].style # <<>>
    /\ \E i \in DOMAIN sdoc[e].style : sdoc[e].style[i][1] = p
    /\ _get_inline_style_property(sdoc, e, p) # <<>>

\* Indexes of the parsed rules that match e and declare p.
Declaring(e, p) ==
    { i \in DOMAIN parsed_rules :
        /\ _element_matches_selector(sdoc, e, parsed_rules[i].selector)
        /\ p \in DOMAIN parsed_rules[i].properties }

\* Those of highest specificity among them.
Strongest(e, p) ==
    { i \in Declaring(e, p) :
        \A j \in Declaring(e, p) :
            ~TupleLess(parsed_rules[i].specificity, parsed_rules[j].specificity) }

\* The values the stated precedence admits for (e, p).
RECURSIVE Admitted(_, _)
Admitted(e, p) ==
    IF InlineDeclares(e, p)
    THEN { _parse_properties(sdoc[e].style)[p] }
    ELSE IF Declaring(e, p) # {}
    THEN { parsed_rules[i].properties[p] : i \in Strongest(e, p) }
    ELSE IF p = "color" /\ sdoc[e].parent # 0
    THEN Admitted(sdoc[e].parent, p)
    ELSE { CASE p = "color" -> <<"#", "0", "0", "0", "0", "0", "0">>
             [] p = "background-color" -> <<"t", "r", "a", "n", "s", "p", "a", "r", "e", "n", "t">>
             [] p = "font-size" -> <<"1", "6", "p", "x">>
             [] p = "font-weight" -> <<"n", "o", "r", "m", "a", "l">> }

\* C1: get_computed_style resolves in strict precedence: a declared inline
\* value wins over every rule; else the value of a matching rule of highest
\* specificity; else, for color only, the parent's computed value; else the
\* hard-coded default.  With <p class="x" style="color:#111"> and the rules
\* .x{color:#222}, p{color:#333} in either order the result is the inline #111, and
\* #222 without the inline style.
C1_Precedence ==
    squery # <<>> =>
        /\ sresult \in Admitted(squery[1], squery[2])
        /\ ( /\ squery = <<2, "color">>
             /\ "x" \in sdoc[2].class
             /\ { parsed_rules[i] : i \in DOMAIN parsed_rules }
                  = { [selector |-> SelX, properties |-> ("color" :> Hex222), specificity |-> <<0, 1, 0>>],
                      [selector |-> SelP, properties |-> ("color" :> Hex333), specificity |-> <<0, 0, 1>>] }
             => sresult = IF sdoc[2].style = <<<<"color", Hex111>>>> THEN Hex111 ELSE Hex222 )

\* Reached: no inline value, and the first-declared matching rule is weaker
\* than a later one, whose value is returned.
C1_Witness ==
    /\ squery = <<2, "color">>
    /\ ~InlineDeclares(2, "color")
    /\ Len(parsed_rules) = 2
    /\ Declaring(2, "color") = {1, 2}
    /\ Strongest(2, "color") = {2}
    /\ parsed_rules[1].properties["color"] # parsed_rules[2].properties["color"]
    /\ sresult = parsed_rules[2].properties["color"]

\* C2 (as claimed): among the matching rules of equal, highest specificity
\* the one declared last in source order supplies the value.
C2_LaterWinsTies ==
    ( /\ squery # <<>>
      /\ ~InlineDeclares(squery[1], squery[2])
      /\ Declaring(squery[1], squery[2]) # {} )
    => LET S    == Strongest(squery[1], squery[2])
           last == CHOOSE i \in S : \A j \in S : j <= i
       IN  sresult = parsed_rules[last].properties[squery[2]]

----------------------------------------------------------------------------
(* The documents of the ColorContrastCheck specification: a <div> with one *)
(* child that carries text.                                                *)

Str_777      == <<"#", "7", "7", "7">>
Str_767676   == <<"#", "7", "6", "7", "6", "7", "6">>
Str_595959   == <<"#", "5", "9", "5", "9", "5", "9">>
Str_000      == <<"#", "0", "0", "0">>
Str_rgb149   == <<"r", "g", "b", "(", "1", "4", "9", ",", " ", "1", "4", "9", ",", " ", "1", "4", "9", ")">>
Str_hslWhite == <<"h", "s", "l", "(", "0", ",", " ", "0", "%", ",", " ", "1", "0", "0", "%", ")">>
Str_inherit  == <<"i", "n", "h", "e", "r", "i", "t">>
Str_teal     == <<"t", "e", "a", "l">>
Str_TRANSPARENT == <<"T", "r", "a", "n", "s", "p", "a", "r", "e", "n", "t">>
Str_24px     == <<"2", "4", "p", "x">>
Str_18pt     == <<"1", "8", "p", "t">>

\* An optional declaration: <<>> or the one-declaration list.
Decl(prop, values) == { <<>> } \cup { << <<prop, v>> >> : v \in values }

TextColours == {Str_777, Str_767676, Str_rgb149, Transparent, Str_inherit, Str_hslWhite, Str_teal}
BackColours == {Str_000, Str_595959, Str_hslWhite, Str_TRANSPARENT}

ContrastDocs ==
    { << [name |-> "div", id |-> None, class |-> {}, style |-> ps, parent |-> 0, text |-> FALSE],
         [name |-> n, id |-> None, class |-> c, style |-> col \o bg \o fs, parent |-> 1,
          text |-> TRUE] >> :
        ps  \in Decl("background-color", {Str_000}),
        n   \in {"p", "h1", "span"},
        c   \in { {}, {"x"} },
        col \in Decl("color", TextColours),
        bg  \in Decl("background-color", BackColours),
        fs  \in Decl("font-size", {Str_24px, Str_18pt}) }

ContrastSheets ==
    { <<>>, << Block(SelX, <<<<"color", Str_rgb149>>>>) >> }

ContrastInit ==
    /\ sdoc \in ContrastDocs
    /\ \E blocks \in ContrastSheets : parsed_rules = _parse_css_text(blocks)
    /\ contrast_level \in {"AA", "AAA"}
    /\ cissues = <<>>
    /\ cstate = "idle"
    /\ StyleIdle /\ TabIdle /\ SortIdle /\ ManagerIdle

\* ColorContrastCheck.check()
Check ==
    /\ cstate = "idle"
    /\ LET r == CheckFrom(parsed_rules, sdoc, 1, contrast_level)
       IN  /\ cissues' = r.issues
           /\ cstate' = IF r.raised THEN "raised" ELSE "done"
    /\ UNCHANGED <<mvars, sdoc, parsed_rules, squery, sresult, contrast_level, tvars, pvars>>

ContrastNext == Check

ContrastSpec == ContrastInit /\ [][ContrastNext]_vars

----------------------------------------------------------------------------
(* Claims about the contrast check.                                        *)

\* A colour value in a syntax the resolver parses to a colour: "#" and 3 or
\* 6 hex digits, rgb()/rgba() with channels up to 255, or a colour name of
\* the table.
Determined(raw) ==
    LET color == Lower(raw)
        m     == RgbMatch(color, TRUE, FALSE)
    IN  \/ /\ StartsWith(color, <<"#">>)
           /\ Len(color) \in {4, 7}
           /\ \A i \in 2..Len(color) : IsHexDigit(color[i])
        \/ m # <<>> /\ \A i \in 1..3 : m[i] <= 255
        \/ \E i \in DOMAIN named_colors : named_colors[i][1] = color /\ color # Transparent

\* The computed colour of the text of e.
TextRaw(e) == get_computed_style(parsed_rules, sdoc, e, "color")

\* The background declarations that are not transparent, from e to the root.
RECURSIVE BackRaws(_)
BackRaws(e) ==
    IF e = 0 THEN <<>>
    ELSE LET v == get_computed_style(parsed_rules, sdoc, e, "background-color")
         IN  (IF Lower(v) # Transparent THEN <<v>> ELSE <<>>) \o BackRaws(sdoc[e].parent)

\* Both colours of e are determined: the text colour, and the nearest
\* background that is not transparent (white when there is none).
ColoursDetermined(e) ==
    /\ Determined(TextRaw(e))
    /\ BackRaws(e) # <<>> => Determined(BackRaws(e)[1])

BackCanonical(e) == IF BackRaws(e) = <<>> THEN White ELSE _normalize_color(BackRaws(e)[1])

\* e is a text element with text: one the check looks at.
Checked(e) == sdoc[e].name \in TextElements /\ get_element_text(sdoc, e)

Reported(type, e) == { i \in DOMAIN cissues : cissues[i].type = type /\ cissues[i].element = e }

\* C3: for a text element whose colours are determined,
\* insufficient-color-contrast (1.4.3) is reported iff the ratio is below
\* 4.5 (normal) or 3.0 (large text), at either level;
\* insufficient-color-contrast-aaa (1.4.6) iff the level is AAA and the ratio
\* is below 7.0 (normal) or 4.5 (large); never an AAA issue at level AA.
C3_Thresholds ==
    cstate = "done" =>
        \A e \in DOMAIN sdoc :
            (Checked(e) /\ ColoursDetermined(e)) =>
                LET ratio == _calculate_contrast_ratio(_normalize_color(TextRaw(e)), BackCanonical(e))
                    large == _is_large_text(parsed_rules, sdoc, e)
                IN  /\ Cardinality(Reported("insufficient-color-contrast", e)) =
                          IF RatioBelow(ratio, IF large THEN 30 ELSE 45) THEN 1 ELSE 0
                    /\ Cardinality(Reported("insufficient-color-contrast-aaa", e)) =
                          IF contrast_level = "AAA" /\ RatioBelow(ratio, IF large THEN 45 ELSE 70)
                          THEN 1 ELSE 0
                    /\ \A i \in Reported("insufficient-color-contrast", e) :
                          cissues[i].criterion = "1.4.3"
                    /\ \A i \in Reported("insufficient-color-contrast-aaa", e) :
                          cissues[i].criterion = "1.4.6"

\* Reached: at level AAA a normal-size element at 4.54:1 (#767676 on white)
\* passes AA and fails AAA, next to a large-text element judged at 3.0/4.5.
C3_Witness ==
    /\ cstate = "done"
    /\ contrast_level = "AAA"
    /\ Checked(2) /\ ColoursDetermined(2)
    /\ ~_is_large_text(parsed_rules, sdoc, 2)
    /\ TextRaw(2) = Str_767676
    /\ BackRaws(2) = <<>>
    /\ Reported("insufficient-color-contrast", 2) = {}
    /\ Reported("insufficient-color-contrast-aaa", 2) # {}

\* C4 (as claimed): when the text or background colour of an element is
\* transparent or cannot be determined, neither contrast issue is reported
\* for it, and exactly one potential-color-contrast-issue of severity minor
\* is, if it has an inline style or a class, and none otherwise.
C4_UndeterminedIsPotential ==
    cstate = "done" =>
        \A e \in DOMAIN sdoc :
            (Checked(e) /\ ~ColoursDetermined(e)) =>
                /\ Reported("insufficient-color-contrast", e) = {}
                /\ Reported("insufficient-color-contrast-aaa", e) = {}
                /\ Cardinality(Reported("potential-color-contrast-issue", e)) =
                      IF sdoc[e].style # <<>> \/ sdoc[e].class # {} THEN 1 ELSE 0
                /\ \A i \in Reported("potential-color-contrast-issue", e) :
                      cissues[i].severity = "minor"

----------------------------------------------------------------------------
(* Visual reading order (TabOrderRemediation and TabOrderCheck).           *)
(* An element with position data is [element, bbox]: the element is the    *)
(* node it stands for, bbox is [x, y, width, height].                      *)

Abs(n) == IF n < 0 THEN -n ELSE n
Min2(a, b) == IF a <= b THEN a ELSE b
Max2(a, b) == IF a >= b THEN a ELSE b

\* list.sort(key=...): the entries are [key, item]; an entry goes after the
\* entries whose key is not greater, so equal keys keep their arrival order.
RECURSIVE InsertByKeyUnstable(_, _)
InsertByKeyUnstable(sorted, entry) ==
    IF sorted = <<>> THEN <<entry>>
    ELSE IF entry.key <= sorted[1].key THEN <<entry>> \o sorted
    ELSE <<sorted[1]>> \o InsertByKeyUnstable(Tail(sorted), entry)

RECURSIVE InsertByKey(_, _)
InsertByKey(sorted, entry) ==
    IF sorted = <<>> THEN <<entry>>
    ELSE IF entry.key < sorted[1].key THEN <<entry>> \o sorted
    ELSE <<sorted[1]>> \o InsertByKey(Tail(sorted), entry)

RECURSIVE ListSortFrom(_, _, _)
ListSortFrom(entries, k, sorted) ==
    IF k > Len(entries) THEN sorted
    ELSE ListSortFrom(entries, k + 1, InsertByKey(sorted, entries[k]))

ListSort(entries) == ListSortFrom(entries, 1, <<>>)
Items(entries) == [i \in 1..Len(entries) |-> entries[i].item]

\* The threshold passed at tab_order_remediation.py:223, and the default of
\* TabOrderCheck._group_into_rows.
RowThreshold == 20
CheckRowThreshold == 20

RECURSIVE AddToRowsAgainstYMax(_, _, _, _)
AddToRowsAgainstYMax(rows, i, element_data, threshold) ==
    IF i > Len(rows)
    THEN Append(rows, [y_min |-> element_data.bbox.y,
                       y_max |-> element_data.bbox.y + element_data.bbox.height,
                       elements |-> <<element_data>>])
    ELSE IF Abs(element_data.bbox.y - rows[i].y_max) <= threshold
    THEN [rows EXCEPT ![i] =
            [y_min |-> Min2(rows[i].y_min, element_data.bbox.y),
             y_max |-> Max2(rows[i].y_max, element_data.bbox.y + element_data.bbox.height),
             elements |-> Append(rows[i].elements, element_data)]]
    ELSE AddToRowsAgainstYMax(rows, i + 1, element_data, threshold)

AddToRowsUnwidened(rows, i, element_data, threshold) ==
    IF rows = <<>>
    THEN <<[y_min |-> element_data.bbox.y,
            y_max |-> element_data.bbox.y + element_data.bbox.height,
            elements |-> <<element_data>>]>>
    ELSE [rows EXCEPT ![1].elements = Append(@, element_data)]

\* The row loop of _group_into_rows for one element: it joins the first
\* row, in creation order, whose y_min is within the threshold, and widens
\* that row; without such a row it starts a new one.
RECURSIVE AddToRows(_, _, _, _)
AddToRows(rows, i, element_data, threshold) ==
    IF i > Len(rows)
    THEN Append(rows, [y_min |-> element_data.bbox.y,
                       y_max |-> element_data.bbox.y + element_data.bbox.height,
                       elements |-> <<element_data>>])
    ELSE IF Abs(element_data.bbox.y - rows[i].y_min) <= threshold
    THEN [rows EXCEPT ![i] =
            [y_min |-> Min2(rows[i].y_min, element_data.bbox.y),
             y_max |-> Max2(rows[i].y_max, element_data.bbox.y + element_data.bbox.height),
             elements |-> Append(rows[i].elements, element_data)]]
    ELSE AddToRows(rows, i + 1, element_data, threshold)

RECURSIVE GroupIntoRowsFrom(_, _, _, _)
GroupIntoRowsFrom(elements, k, rows, threshold) ==
    IF k > Len(elements) THEN rows
    ELSE GroupIntoRowsFrom(elements, k + 1, AddToRows(rows, 1, elements[k], threshold),
                           threshold)

\* TabOrderRemediation._group_into_rows
_group_into_rows(elements, threshold) == GroupIntoRowsFrom(elements, 1, <<>>, threshold)

\* rows.sort(key=lambda row: row["y_min"])
SortRows(rows) ==
    Items(ListSort([i \in 1..Len(rows) |-> [key |-> rows[i].y_min, item |-> rows[i]]]))

\* row["elements"].sort(key=lambda el: el["bbox"]["x"])
SortRowElements(elements) ==
    Items(ListSort([i \in 1..Len(elements) |->
                        [key |-> elements[i].bbox.x, item |-> elements[i]]]))

\* sorted_elements.extend(row["elements"]) over the rows.
RECURSIVE ExtendRows(_)
ExtendRows(rows) ==
    IF rows = <<>> THEN <<>>
    ELSE SortRowElements(rows[1].elements) \o ExtendRows(Tail(rows))

\* TabOrderRemediation._sort_by_visual_position
_sort_by_visual_position(elements) ==
    IF elements = <<>> THEN <<>>
    ELSE ExtendRows(SortRows(_group_into_rows(elements, RowThreshold)))

\* TabOrderCheck._group_into_rows and TabOrderCheck._sort_by_visual_position
Check_group_into_rows(elements, threshold) == GroupIntoRowsFrom(elements, 1, <<>>, threshold)

Check_sort_by_visual_position(elements) ==
    IF elements = <<>> THEN <<>>
    ELSE ExtendRows(SortRows(Check_group_into_rows(elements, CheckRowThreshold)))

----------------------------------------------------------------------------
(* The parsed document of the tab-order code.                              *)
(* A soup is [attrs, contents]: attrs[n] holds the tag name, the           *)
(* attributes and the own text of node n; contents[p] lists the children   *)
(* of p in order, p = 0 being the BeautifulSoup object itself.  A node     *)
(* number is the identity of a Tag object; the attributes read:            *)
(*   name, id, href, text, tabindex: strings (NoneStr: absent);            *)
(*   class: the list of class names (<<>>: no class attribute);            *)
(*   role: a name or None;  handlers: the on* attributes present;          *)
(*   bbox: the parts of data-bda-bbox split at ",", each as float() reads  *)
(*         it: <<v>>, or <<>> where float() raises ValueError; no part at  *)
(*         all: the attribute is absent.                                   *)

NodeName(sp, n) == IF n = 0 THEN "[document]" ELSE sp.attrs[n].name

\* element.parent
Parent(sp, n) ==
    CHOOSE p \in DOMAIN sp.contents : \E k \in 1..Len(sp.contents[p]) : sp.contents[p][k] = n

\* The descendants of a list of siblings in document order, which is the
\* order find_all and select return.
RECURSIVE Descendants(_, _)
Descendants(sp, siblings) ==
    IF siblings = <<>> THEN <<>>
    ELSE <<siblings[1]>> \o Descendants(sp, sp.contents[siblings[1]])
                         \o Descendants(sp, Tail(siblings))

DocOrder(sp) == Descendants(sp, sp.contents[0])

\* What Tag.__eq__ and Tag.__hash__ look at: the name, the attributes and,
\* recursively, the contents.  Two Tag objects of equal markup are equal
\* and hash alike, so `in`, == and a dict keyed by Tag do not tell them
\* apart; Tag.index, extract and insert go by identity.
RECURSIVE Markup(_, _)
Markup(sp, n) ==
    [tag      |-> IF n = 0 THEN <<"[document]">> ELSE <<sp.attrs[n]>>,
     contents |-> [k \in 1..Len(sp.contents[n]) |-> Markup(sp, sp.contents[n][k])]]

TagEq(sp, a, b) == a = b \/ Markup(sp, a) = Markup(sp, b)

\* The first element of a list, 0 (None) for the empty list.
First(elements) == IF elements = <<>> THEN 0 ELSE elements[1]

\* soup.find(id=value)
FindById(sp, value) ==
    First(SelectSeq(DocOrder(sp), LAMBDA n : sp.attrs[n].id = value))

\* str.strip() of blanks, and int(): an optional sign and decimal digits;
\* <<>> stands for ValueError, <<v>> for the value v.
IntDigits(digits, sign) ==
    IF digits # <<>> /\ SkipDigits(digits, 1) = Len(digits) + 1
    THEN <<sign * DecValue(digits)>> ELSE <<>>

IntStripped(str) ==
    IF str # <<>> /\ str[1] = "-" THEN IntDigits(Tail(str), -1)
    ELSE IF str # <<>> /\ str[1] = "+" THEN IntDigits(Tail(str), 1)
    ELSE IntDigits(str, 1)

int(str) == IntStripped(Strip(str))

\* A comparison with 1 in place of 0.
_is_positive_tabindex_above_one(tabindex) ==
    /\ tabindex # NoneStr /\ tabindex # <<>>
    /\ int(tabindex) # <<>> /\ int(tabindex)[1] > 1

\* _is_positive_tabindex of an element whose tabindex attribute reads
\* `tabindex`: absent, empty or not an integer is not positive.
_is_positive_tabindex(tabindex) ==
    /\ tabindex # NoneStr /\ tabindex # <<>>
    /\ int(tabindex) # <<>> /\ int(tabindex)[1] > 0

\* TabOrderCheck._is_positive_tabindex
Check_is_positive_tabindex(tabindex) ==
    /\ tabindex # NoneStr /\ tabindex # <<>>
    /\ int(tabindex) # <<>> /\ int(tabindex)[1] > 0

\* _get_element_identifier: name#id, else name.class1.class2, else name.
_get_element_identifier(sp, n) ==
    IF n # 0 /\ sp.attrs[n].id # NoneStr THEN <<NodeName(sp, n), "#", sp.attrs[n].id>>
    ELSE IF n # 0 /\ sp.attrs[n].class # <<>>
    THEN <<NodeName(sp, n), ".", SubSeq(sp.attrs[n].class, 1, Min2(2, Len(sp.attrs[n].class)))>>
    ELSE <<NodeName(sp, n)>>

\* del element["tabindex"] and element["tabindex"] = value
SetTabindex(sp, n, value) == [sp EXCEPT !.attrs[n].tabindex = value]

----------------------------------------------------------------------------
(* TabOrderCheck                                                           *)

\* An issue record.  context_type is the Python type of the value under
\* "context": "dict" in what add_issue builds; a caller's record may hold
\* None ("NoneType"), a string ("str") or no such key ("absent").
TabIssue(type, severity, element, context) ==
    [type |-> type, wcag_criterion |-> "2.4.3", severity |-> severity,
     element |-> element, context |-> context, context_type |-> "dict"]

\* soup.select(INTERACTIVE_SELECTORS[k]); the documents hold no input of
\* type hidden.  The seventh selector is the checker's only.
MatchesSelector(node, k) ==
    CASE k = 1 -> node.name = "a" /\ node.href # NoneStr
      [] k = 2 -> node.name = "button" /\ ~node.disabled
      [] k = 3 -> node.name = "input" /\ ~node.disabled
      [] k = 4 -> node.name = "select" /\ ~node.disabled
      [] k = 5 -> node.name = "textarea" /\ ~node.disabled
      [] k = 6 -> node.name = "area" /\ node.href # NoneStr
      [] k = 7 -> node.tabindex # NoneStr /\ node.tabindex # <<"-", "1">>

Select(sp, k) == SelectSeq(DocOrder(sp), LAMBDA n : MatchesSelector(sp.attrs[n], k))

NON_INTERACTIVE_ELEMENTS == <<"div", "span", "p", "img", "section", "article">>

interactive_roles ==
    {"button", "link", "menuitem", "tab", "option", "checkbox", "radio", "textbox",
     "searchbox", "switch"}

event_attrs ==
    {"onclick", "onkeydown", "onkeyup", "onkeypress", "onmousedown", "onmouseup",
     "onmouseover"}

_has_interactive_role(node) == node.role \in interactive_roles
_has_event_handlers(node) == node.handlers \cap event_attrs # {}

\* _check_positive_tabindex
PositiveIssue(sp, n) ==
    TabIssue("positive-tabindex", "critical", n,
             [element_name |-> sp.attrs[n].name, tabindex |-> sp.attrs[n].tabindex,
              element_id |-> sp.attrs[n].id, element_class |-> sp.attrs[n].class])

_check_positive_tabindex(sp) ==
    [i \in 1..Len(SelectSeq(DocOrder(sp),
                            LAMBDA n : Check_is_positive_tabindex(sp.attrs[n].tabindex))) |->
        PositiveIssue(sp, SelectSeq(DocOrder(sp),
                            LAMBDA n : Check_is_positive_tabindex(sp.attrs[n].tabindex))[i])]

\* _check_unnecessary_tabindex_zero: one find_all per element type, then
\* the elements without interactive role and without event handler.
ZeroIssue(sp, n) ==
    TabIssue("unnecessary-tabindex-zero", "minor", n,
             [element_name |-> sp.attrs[n].name,
              element_id |-> sp.attrs[n].id, element_class |-> sp.attrs[n].class])

UnnecessaryOfType(sp, element_type) ==
    SelectSeq(DocOrder(sp),
              LAMBDA n : /\ sp.attrs[n].name = element_type
                         /\ sp.attrs[n].tabindex = <<"0">>
                         /\ ~_has_interactive_role(sp.attrs[n])
                         /\ ~_has_event_handlers(sp.attrs[n]))

RECURSIVE UnnecessaryFrom(_, _)
UnnecessaryFrom(sp, t) ==
    IF t > Len(NON_INTERACTIVE_ELEMENTS) THEN <<>>
    ELSE UnnecessaryOfType(sp, NON_INTERACTIVE_ELEMENTS[t]) \o UnnecessaryFrom(sp, t + 1)

_check_unnecessary_tabindex_zero(sp) ==
    [i \in 1..Len(UnnecessaryFrom(sp, 1)) |-> ZeroIssue(sp, UnnecessaryFrom(sp, 1)[i])]

\* _extract_bbox_data: <<bbox>> when data-bda-bbox holds four numbers, <<>>
\* (None) otherwise: another number of parts or a part that is no number
\* raises ValueError, which is caught.
Check_extract_bbox_data(node) ==
    IF Len(node.bbox) = 4 /\ \A k \in 1..4 : node.bbox[k] # <<>>
    THEN <<[x |-> node.bbox[1][1], y |-> node.bbox[2][1],
            width |-> node.bbox[3][1], height |-> node.bbox[4][1]]>>
    ELSE <<>>

\* _get_interactive_elements: selector by selector, an element is added
\* unless an equal element is in the list already (`not in` goes by ==).
RECURSIVE AppendNew(_, _, _)
AppendNew(sp, interactive_elements, elements) ==
    IF elements = <<>> THEN interactive_elements
    ELSE IF \E k \in 1..Len(interactive_elements) :
                TagEq(sp, interactive_elements[k], elements[1])
    THEN AppendNew(sp, interactive_elements, Tail(elements))
    ELSE AppendNew(sp, Append(interactive_elements, elements[1]), Tail(elements))

RECURSIVE InteractiveFrom(_, _, _)
InteractiveFrom(sp, k, interactive_elements) ==
    IF k > 7 THEN interactive_elements
    ELSE InteractiveFrom(sp, k + 1, AppendNew(sp, interactive_elements, Select(sp, k)))

_get_interactive_elements(sp) == InteractiveFrom(sp, 1, <<>>)

\* _get_elements_with_position: dom_index is the index in `elements`.
RECURSIVE _get_elements_with_position(_, _, _)
_get_elements_with_position(sp, elements, idx) ==
    IF idx >= Len(elements) THEN <<>>
    ELSE (IF Check_extract_bbox_data(sp.attrs[elements[idx + 1]]) # <<>>
          THEN <<[element |-> elements[idx + 1], dom_index |-> idx,
                  bbox |-> Check_extract_bbox_data(sp.attrs[elements[idx + 1]])[1],
                  element_id |-> sp.attrs[elements[idx + 1]].id,
                  element_type |-> sp.attrs[elements[idx + 1]].name]>>
          ELSE <<>>)
         \o _get_elements_with_position(sp, elements, idx + 1)

\* visual_index_map[id(element)]: the last index at which the element
\* stands in visual_order, counted from 0.
VisualIndex(visual_order, element) ==
    (CHOOSE k \in 1..Len(visual_order) :
        /\ visual_order[k].element = element
        /\ \A m \in (k + 1)..Len(visual_order) : visual_order[m].element # element) - 1

Mismatch(visual_order, dom_order, i) ==
    [current_element |-> [type |-> dom_order[i + 1].element_type,
                          id |-> dom_order[i + 1].element_id,
                          dom_index |-> i,
                          visual_index |-> VisualIndex(visual_order, dom_order[i + 1].element)],
     next_element |-> [type |-> dom_order[i + 2].element_type,
                       id |-> dom_order[i + 2].element_id,
                       dom_index |-> i + 1,
                       visual_index |-> VisualIndex(visual_order, dom_order[i + 2].element)]]

_find_order_mismatches_first_pair(visual_order, dom_order, i) ==
    IF Len(dom_order) >= 2
       /\ VisualIndex(visual_order, dom_order[2].element)
            < VisualIndex(visual_order, dom_order[1].element)
    THEN <<Mismatch(visual_order, dom_order, 0)>> ELSE <<>>

\* _find_order_mismatches: the neighbours in dom_order that stand the other
\* way round in visual_order.
RECURSIVE _find_order_mismatches(_, _, _)
_find_order_mismatches(visual_order, dom_order, i) ==
    IF i >= Len(dom_order) - 1 THEN <<>>
    ELSE (IF VisualIndex(visual_order, dom_order[i + 2].element)
               < VisualIndex(visual_order, dom_order[i + 1].element)
          THEN <<Mismatch(visual_order, dom_order, i)>> ELSE <<>>)
         \o _find_order_mismatches(visual_order, dom_order, i + 1)

MismatchIssue(mismatches, total) ==
    IF mismatches = <<>> THEN <<>>
    ELSE <<TabIssue("tab-order-mismatch", "major", 0,
                    [mismatches_count |-> Len(mismatches),
                     mismatches |-> SubSeq(mismatches, 1, Min2(5, Len(mismatches))),
                     total_interactive_elements |-> total])>>

CheckPositioned(elements_with, total) ==
    IF Len(elements_with) < 2 THEN <<>>
    ELSE MismatchIssue(_find_order_mismatches(Check_sort_by_visual_position(elements_with),
                                              elements_with, 0),
                       total)

\* _check_tab_order_vs_visual_order
CheckInteractive(sp, interactive_elements) ==
    IF Len(interactive_elements) < 2 THEN <<>>
    ELSE CheckPositioned(_get_elements_with_position(sp, interactive_elements, 0),
                         Len(interactive_elements))

_check_tab_order_vs_visual_order(sp) == CheckInteractive(sp, _get_interactive_elements(sp))

\* TabOrderCheck.check(): the issues of the three checks, in order.
TabOrderCheck(sp) ==
    _check_positive_tabindex(sp) \o _check_unnecessary_tabindex_zero(sp)
        \o _check_tab_order_vs_visual_order(sp)

----------------------------------------------------------------------------
(* TabOrderRemediation: the steps on [soup, changes].                      *)

\* Steps 1, 2 and 4 log one change of this shape per attribute they touch.
TabindexChange(type, sp, n, old_value, new_value) ==
    [type |-> type, element |-> _get_element_identifier(sp, n),
     element_type |-> sp.attrs[n].name, old_value |-> old_value, new_value |-> new_value]

\* The loop of _remove_positive_tabindex over the elements found.
RECURSIVE RemovePositiveFrom(_, _, _)
RemovePositiveFrom(sp, chg, elements) ==
    IF elements = <<>> THEN [soup |-> sp, changes |-> chg]
    ELSE RemovePositiveFrom(
            SetTabindex(sp, elements[1], NoneStr),
            Append(chg, TabindexChange("positive_tabindex_removed",
                                       SetTabindex(sp, elements[1], NoneStr), elements[1],
                                       sp.attrs[elements[1]].tabindex, NoneStr)),
            Tail(elements))

\* _remove_positive_tabindex
_remove_positive_tabindex(sp, chg) ==
    RemovePositiveFrom(sp, chg,
        SelectSeq(DocOrder(sp), LAMBDA n : _is_positive_tabindex(sp.attrs[n].tabindex)))

\* find_all(element_name, class_=element_class): an element of that name
\* with one of the classes.
FindAllByClass(sp, element_name, element_class) ==
    SelectSeq(DocOrder(sp),
              LAMBDA n : /\ sp.attrs[n].name = element_name
                         /\ \E i \in 1..Len(sp.attrs[n].class), j \in 1..Len(element_class) :
                               sp.attrs[n].class[i] = element_class[j])

\* find_all(element_name, attrs={"tabindex": "0"})
FindAllTabindexZero(sp, element_name) ==
    SelectSeq(DocOrder(sp),
              LAMBDA n : sp.attrs[n].name = element_name /\ sp.attrs[n].tabindex = <<"0">>)

\* issue.get("context", {}) read with .get(key): a record without the key
\* "context" reads as the empty dict, every key None.
ContextOf(issue) ==
    IF issue.context_type = "absent"
    THEN [element_id |-> NoneStr, element_name |-> None, element_class |-> <<>>]
    ELSE issue.context

\* _find_element_from_issue: the first element of the name with the class,
\* else the first element of the name with tabindex="0"; 0 is None.
_find_element_from_issue(sp, issue) ==
    IF ContextOf(issue).element_name = None THEN 0
    ELSE IF /\ ContextOf(issue).element_class # <<>>
            /\ FindAllByClass(sp, ContextOf(issue).element_name,
                              ContextOf(issue).element_class) # <<>>
    THEN FindAllByClass(sp, ContextOf(issue).element_name, ContextOf(issue).element_class)[1]
    ELSE First(FindAllTabindexZero(sp, ContextOf(issue).element_name))

\* The element an unnecessary-tabindex-zero issue is resolved to.
IssueElement(sp, issue) ==
    IF ContextOf(issue).element_id # NoneStr /\ ContextOf(issue).element_id # <<>>
    THEN FindById(sp, ContextOf(issue).element_id)
    ELSE _find_element_from_issue(sp, issue)

RemoveZeroAtPrepending(sp, chg, element) ==
    IF element # 0 /\ sp.attrs[element].tabindex = <<"0">>
    THEN [soup |-> SetTabindex(sp, element, NoneStr),
          changes |-> <<TabindexChange("unnecessary_tabindex_zero_removed",
                                       SetTabindex(sp, element, NoneStr), element,
                                       <<"0">>, NoneStr)>> \o chg,
          raised |-> FALSE]
    ELSE [soup |-> sp, changes |-> chg, raised |-> FALSE]

RemoveZeroAt(sp, chg, element) ==
    IF element # 0 /\ sp.attrs[element].tabindex = <<"0">>
    THEN [soup |-> SetTabindex(sp, element, NoneStr),
          changes |-> Append(chg, TabindexChange("unnecessary_tabindex_zero_removed",
                                                 SetTabindex(sp, element, NoneStr), element,
                                                 <<"0">>, NoneStr)),
          raised |-> FALSE]
    ELSE [soup |-> sp, changes |-> chg, raised |-> FALSE]

\* The loop of _remove_unnecessary_tabindex_zero over the issues.  A
\* context that is None or a string has no .get: line 109 raises
\* AttributeError and the loop ends there.
RECURSIVE RemoveZeroFrom(_, _)
RemoveZeroFrom(state, unnecessary_tabindex_issues) ==
    IF unnecessary_tabindex_issues = <<>> THEN state
    ELSE IF unnecessary_tabindex_issues[1].context_type \in {"NoneType", "str"}
    THEN [state EXCEPT !.raised = TRUE]
    ELSE RemoveZeroFrom(
            RemoveZeroAt(state.soup, state.changes,
                         IssueElement(state.soup, unnecessary_tabindex_issues[1])),
            Tail(unnecessary_tabindex_issues))

\* _remove_unnecessary_tabindex_zero
_remove_unnecessary_tabindex_zero(sp, chg, iss) ==
    RemoveZeroFrom([soup |-> sp, changes |-> chg, raised |-> FALSE],
                   SelectSeq(iss, LAMBDA issue : issue.type = "unnecessary-tabindex-zero"))

\* "skip" in link.get_text().lower()
Contains(str, sub) ==
    \E i \in 1..(Len(str) - Len(sub) + 1) : SubSeq(str, i, i + Len(sub) - 1) = sub

IsSkipLink(node) ==
    /\ StartsWith(node.href, <<"#">>)
    /\ Contains(Lower(node.text), <<"s", "k", "i", "p">>)

\* The patch without the test that the target has no tabindex yet.
AddNegativeAtUnguarded(sp, chg, target) ==
    IF target # 0
    THEN [soup |-> SetTabindex(sp, target, <<"-", "1">>),
          changes |-> Append(chg, TabindexChange("tabindex_negative_added",
                                                 SetTabindex(sp, target, <<"-", "1">>), target,
                                                 NoneStr, <<"-", "1">>))]
    ELSE [soup |-> sp, changes |-> chg]

AddNegativeAt(sp, chg, target) ==
    IF target # 0 /\ sp.attrs[target].tabindex = NoneStr
    THEN [soup |-> SetTabindex(sp, target, <<"-", "1">>),
          changes |-> Append(chg, TabindexChange("tabindex_negative_added",
                                                 SetTabindex(sp, target, <<"-", "1">>), target,
                                                 NoneStr, <<"-", "1">>))]
    ELSE [soup |-> sp, changes |-> chg]

\* The loop of _add_appropriate_negative_tabindex over the links found.
RECURSIVE AddNegativeFrom(_, _)
AddNegativeFrom(state, skip_links) ==
    IF skip_links = <<>> THEN state
    ELSE IF IsSkipLink(state.soup.attrs[skip_links[1]])
    THEN AddNegativeFrom(
            AddNegativeAt(state.soup, state.changes,
                          FindById(state.soup, Tail(state.soup.attrs[skip_links[1]].href))),
            Tail(skip_links))
    ELSE AddNegativeFrom(state, Tail(skip_links))

\* _add_appropriate_negative_tabindex
_add_appropriate_negative_tabindex(sp, chg) ==
    AddNegativeFrom([soup |-> sp, changes |-> chg],
        SelectSeq(DocOrder(sp),
                  LAMBDA n : sp.attrs[n].name = "a" /\ sp.attrs[n].href # NoneStr))

\* TabOrderRemediation._extract_bbox_data
_extract_bbox_data(node) ==
    IF Len(node.bbox) = 4 /\ \A k \in 1..4 : node.bbox[k] # <<>>
    THEN <<[x |-> node.bbox[1][1], y |-> node.bbox[2][1],
            width |-> node.bbox[3][1], height |-> node.bbox[4][1]]>>
    ELSE <<>>

\* The inner loop of _get_interactive_elements_with_position for the
\* elements one selector returns.
RECURSIVE WithPosition(_, _, _)
WithPosition(sp, elements, idx) ==
    IF idx >= Len(elements) THEN <<>>
    ELSE (IF _extract_bbox_data(sp.attrs[elements[idx + 1]]) # <<>>
          THEN <<[element |-> elements[idx + 1],
                  bbox |-> _extract_bbox_data(sp.attrs[elements[idx + 1]])[1],
                  original_index |-> idx]>>
          ELSE <<>>)
         \o WithPosition(sp, elements, idx + 1)

\* _get_interactive_elements_with_position: selector by selector.
RECURSIVE _get_interactive_elements_with_position(_, _)
_get_interactive_elements_with_position(sp, k) ==
    IF k > 6 THEN <<>>
    ELSE WithPosition(sp, Select(sp, k), 0)
            \o _get_interactive_elements_with_position(sp, k + 1)

\* grouped[parent].append(element_data): the dict finds the key that is
\* equal to the parent, and keeps the first such parent as the key.
RECURSIVE AddToGroup(_, _, _, _)
AddToGroup(sp, grouped, g, element_data) ==
    IF g > Len(grouped)
    THEN Append(grouped, [parent |-> Parent(sp, element_data.element),
                          elements |-> <<element_data>>])
    ELSE IF TagEq(sp, grouped[g].parent, Parent(sp, element_data.element))
    THEN [grouped EXCEPT ![g].elements = Append(@, element_data)]
    ELSE AddToGroup(sp, grouped, g + 1, element_data)

\* _group_by_common_parent: the groups in the order their keys were added.
RECURSIVE _group_by_common_parent(_, _, _)
_group_by_common_parent(sp, elements, grouped) ==
    IF elements = <<>> THEN grouped
    ELSE _group_by_common_parent(sp, Tail(elements), AddToGroup(sp, grouped, 1, elements[1]))

\* element.extract(): the element leaves the contents of its parent.
Extract(sp, element) ==
    [sp EXCEPT !.contents =
        [p \in DOMAIN sp.contents |-> SelectSeq(sp.contents[p], LAMBDA c : c # element)]]

RECURSIVE ExtractAll(_, _)
ExtractAll(sp, element_tags) ==
    IF element_tags = <<>> THEN sp
    ELSE ExtractAll(Extract(sp, element_tags[1]), Tail(element_tags))

\* parent.insert(position, element): position counts from 0 and is cut to
\* the length of the contents.
InsertAt(contents, position, element) ==
    SubSeq(contents, 1, Min2(position, Len(contents))) \o <<element>>
        \o SubSeq(contents, Min2(position, Len(contents)) + 1, Len(contents))

RECURSIVE InsertAll(_, _, _, _, _)
InsertAll(sp, parent, insert_position, element_tags, idx) ==
    IF idx >= Len(element_tags) THEN sp
    ELSE InsertAll([sp EXCEPT !.contents[parent] =
                        InsertAt(@, insert_position + idx, element_tags[idx + 1])],
                   parent, insert_position, element_tags, idx + 1)

\* list(parent.children).index(first_element): the first child equal to
\* the element, counted from 0; -1 stands for ValueError.
ChildIndex(sp, parent, first_element) ==
    IF \E k \in 1..Len(sp.contents[parent]) : TagEq(sp, sp.contents[parent][k], first_element)
    THEN (CHOOSE k \in 1..Len(sp.contents[parent]) :
            /\ TagEq(sp, sp.contents[parent][k], first_element)
            /\ \A m \in 1..(k - 1) : ~TagEq(sp, sp.contents[parent][m], first_element)) - 1
    ELSE -1

DomReordered(sp, parent, element_tags) ==
    [type |-> "dom_reordered", parent |-> _get_element_identifier(sp, parent),
     elements |-> [i \in 1..Len(element_tags) |-> _get_element_identifier(sp, element_tags[i])],
     count |-> Len(element_tags)]

ReorderAt(state, parent, element_tags, insert_position) ==
    IF insert_position < 0 THEN [state EXCEPT !.raised = TRUE]
    ELSE [soup |-> InsertAll(ExtractAll(state.soup, element_tags), parent,
                             insert_position, element_tags, 0),
          changes |-> Append(state.changes, DomReordered(state.soup, parent, element_tags)),
          raised |-> FALSE]

\* _reorder_siblings: nothing happens to fewer than two elements, nor when
\* an element has a parent that is not equal to `parent`.
_reorder_siblings(state, parent, element_tags) ==
    IF Len(element_tags) < 2 THEN state
    ELSE IF \E i \in 1..Len(element_tags) :
                ~TagEq(state.soup, Parent(state.soup, element_tags[i]), parent)
    THEN state
    ELSE ReorderAt(state, parent, element_tags,
                   ChildIndex(state.soup, parent, element_tags[1]))

Elements(elements) == [i \in 1..Len(elements) |-> elements[i].element]

\* The loop of _reorder_dom_by_visual_position over grouped_by_parent; an
\* exception ends it.
RECURSIVE ReorderGroups(_, _)
ReorderGroups(state, grouped) ==
    IF grouped = <<>> \/ state.raised THEN state
    ELSE ReorderGroups(_reorder_siblings(state, grouped[1].parent,
                                         Elements(grouped[1].elements)),
                       Tail(grouped))

ReorderPositioned(sp, chg, interactive_elements) ==
    IF Len(interactive_elements) < 2 THEN [soup |-> sp, changes |-> chg, raised |-> FALSE]
    ELSE ReorderGroups([soup |-> sp, changes |-> chg, raised |-> FALSE],
                       _group_by_common_parent(sp, _sort_by_visual_position(interactive_elements),
                                               <<>>))

\* _reorder_dom_by_visual_position
_reorder_dom_by_visual_position(sp, chg, iss) ==
    IF SelectSeq(iss, LAMBDA issue : issue.type = "tab-order-mismatch") = <<>>
    THEN [soup |-> sp, changes |-> chg, raised |-> FALSE]
    ELSE ReorderPositioned(sp, chg, _get_interactive_elements_with_position(sp, 1))

----------------------------------------------------------------------------
(* TabOrderRemediation on two families of documents:                       *)
(*   - up to MaxElements elements side by side, drawn from TabElements;    *)
(*   - two <div> holding up to MaxLeaves leaves drawn from TabLeaves.      *)

Str_0      == <<"0">>
Str_3      == <<"3">>
Str_plus1  == <<"+", "1">>
Str_minus2 == <<"-", "2">>
Str_x      == <<"x">>
Str_main   == <<"m", "a", "i", "n">>
Str_hash_main == <<"#", "m", "a", "i", "n">>
Str_path   == <<"/", "x">>
Str_Skip   == <<"S", "k", "i", "p">>
Str_Go     == <<"G", "o">>

\* An element; bbox lists the numbers of a well-formed data-bda-bbox.
Node(name, id, class, role, handlers, href, text, tabindex, bbox) ==
    [name |-> name, id |-> id, class |-> class, role |-> role, handlers |-> handlers,
     href |-> href, text |-> text, tabindex |-> tabindex,
     bbox |-> [k \in 1..Len(bbox) |-> <<bbox[k]>>],
     disabled |-> FALSE]

TabElements ==
    { Node("div", NoneStr, <<"c">>, None, {}, NoneStr, Str_Go, Str_0, <<>>),
      Node("div", NoneStr, <<"c">>, "button", {}, NoneStr, Str_Go, Str_0, <<>>),
      Node("div", NoneStr, <<>>, None, {"onclick"}, NoneStr, Str_Go, Str_0, <<>>),
      Node("div", NoneStr, <<>>, None, {}, NoneStr, Str_Go, Str_0, <<>>),
      Node("div", Str_main, <<>>, None, {}, NoneStr, Str_Go, Str_0, <<>>),
      Node("main", Str_main, <<>>, None, {}, NoneStr, Str_Go, Str_0, <<>>),
      Node("main", Str_main, <<>>, None, {}, NoneStr, Str_Go, Str_minus2, <<>>),
      Node("main", Str_main, <<>>, None, {}, NoneStr, Str_Go, NoneStr, <<>>),
      Node("section", Str_main, <<>>, None, {}, NoneStr, Str_Go, Str_plus1, <<>>),
      Node("a", NoneStr, <<>>, None, {}, Str_hash_main, Str_Skip, NoneStr, <<>>),
      Node("a", NoneStr, <<>>, None, {}, Str_path, Str_Go, Str_3, <<>>),
      Node("button", NoneStr, <<>>, None, {}, NoneStr, Str_Go, Str_0, <<>>),
      Node("span", NoneStr, <<>>, None, {}, NoneStr, Str_Go, Str_x, <<>>) }

TabLeaves ==
    { Node("a", NoneStr, <<>>, None, {}, Str_path, Str_Go, NoneStr, <<10, 0, 5, 5>>),
      Node("a", NoneStr, <<>>, None, {}, Str_path, Str_Go, NoneStr, <<0, 30, 5, 5>>),
      Node("button", NoneStr, <<>>, None, {}, NoneStr, Str_Go, NoneStr, <<0, 15, 5, 5>>),
      Node("a", NoneStr, <<>>, None, {}, Str_path, Str_Go, NoneStr, <<0, 0, 5>>),
      Node("span", NoneStr, <<>>, None, {}, NoneStr, Str_Go, NoneStr, <<>>) }

Container == Node("div", NoneStr, <<>>, None, {}, NoneStr, <<>>, NoneStr, <<>>)

MaxElements == 3
MaxLeaves == 4

\* The elements side by side under the document.
FlatSoup(elements) ==
    [attrs |-> elements,
     contents |-> [p \in 0..Len(elements) |->
                      IF p = 0 THEN [i \in 1..Len(elements) |-> i] ELSE <<>>]]

\* Two <div>: the first k leaves in the first, the others in the second.
TreeSoup(leaves, k) ==
    [attrs |-> <<Container, Container>> \o leaves,
     contents |-> [p \in 0..(Len(leaves) + 2) |->
                      IF p = 0 THEN <<1, 2>>
                      ELSE IF p = 1 THEN [i \in 1..k |-> 2 + i]
                      ELSE IF p = 2 THEN [i \in 1..(Len(leaves) - k) |-> 2 + k + i]
                      ELSE <<>>]]

\* An issue list a caller passes: what TabOrderCheck reports on the
\* document, nothing, or a lone tab-order-mismatch issue.
GivenMismatch ==
    TabIssue("tab-order-mismatch", "major", 0,
             [mismatches_count |-> 1, mismatches |-> <<>>, total_interactive_elements |-> 2])

IssueList(sp, choice) ==
    CASE choice = "audit"    -> TabOrderCheck(sp)
      [] choice = "none"     -> <<>>
      [] choice = "mismatch" -> <<GivenMismatch>>

ReorderOff == [reorder_dom_for_visual_order |-> FALSE]

TabDocs ==
    { FlatSoup(elements) : elements \in SeqsUpTo(TabElements, MaxElements) \ { <<>> } }
    \cup
    UNION { { TreeSoup(leaves, k) : k \in 0..Len(leaves) } :
                leaves \in { q \in SeqsUpTo(TabLeaves, MaxLeaves) : Len(q) >= 2 } }

\* TabOrderRemediation.__init__(html_content, issues, options)
TabInit ==
    /\ html_content \in TabDocs
    /\ soup = html_content
    /\ \E choice \in {"audit", "none", "mismatch"} : issues = IssueList(html_content, choice)
    /\ options \in {EmptyDict, ReorderOff}
    /\ changes = <<>>
    /\ returned = <<>>
    /\ pc = "step1"
    /\ sdoc = <<>> /\ parsed_rules = <<>>
    /\ StyleIdle /\ ContrastIdle /\ SortIdle /\ ManagerIdle

\* Step 1 of remediate()
RemovePositiveTabindex ==
    /\ pc = "step1"
    /\ soup' = _remove_positive_tabindex(soup, changes).soup
    /\ changes' = _remove_positive_tabindex(soup, changes).changes
    /\ pc' = "step2"
    /\ UNCHANGED <<mvars, svars, cvars, pvars, html_content, issues, options, returned>>

\* Step 2 of remediate()
RemoveUnnecessaryTabindexZero ==
    /\ pc = "step2"
    /\ soup' = _remove_unnecessary_tabindex_zero(soup, changes, issues).soup
    /\ changes' = _remove_unnecessary_tabindex_zero(soup, changes, issues).changes
    /\ pc' = IF _remove_unnecessary_tabindex_zero(soup, changes, issues).raised
             THEN "raised" ELSE "step3"
    /\ UNCHANGED <<mvars, svars, cvars, pvars, html_content, issues, options, returned>>

\* options.get("reorder_dom_for_visual_order", True)
ReorderEnabled(opts) ==
    IF "reorder_dom_for_visual_order" \in DOMAIN opts
    THEN opts["reorder_dom_for_visual_order"] ELSE TRUE

\* Step 3 of remediate(): the reordering, when the option allows it.
ReorderDomByVisualPosition ==
    /\ pc = "step3"
    /\ IF ReorderEnabled(options)
       THEN /\ soup' = _reorder_dom_by_visual_position(soup, changes, issues).soup
            /\ changes' = _reorder_dom_by_visual_position(soup, changes, issues).changes
            /\ pc' = IF _reorder_dom_by_visual_position(soup, changes, issues).raised
                     THEN "raised" ELSE "step4"
       ELSE /\ pc' = "step4"
            /\ UNCHANGED <<soup, changes>>
    /\ UNCHANGED <<mvars, svars, cvars, pvars, html_content, issues, options, returned>>

\* Step 4 of remediate(), after which it returns.
AddAppropriateNegativeTabindex ==
    /\ pc = "step4"
    /\ soup' = _add_appropriate_negative_tabindex(soup, changes).soup
    /\ changes' = _add_appropriate_negative_tabindex(soup, changes).changes
    /\ pc' = "done"
    /\ UNCHANGED <<mvars, svars, cvars, pvars, html_content, issues, options, returned>>

TabNext ==
    \/ RemovePositiveTabindex
    \/ RemoveUnnecessaryTabindexZero
    \/ ReorderDomByVisualPosition
    \/ AddAppropriateNegativeTabindex

TabSpec == TabInit /\ [][TabNext]_vars

----------------------------------------------------------------------------
(* Claims about the tab-order remediation.                                 *)

TabNodes == 1..Len(soup.attrs)

\* The tabindex attribute is there and int() makes it a number above 0.
ParsesPositive(tabindex) ==
    tabindex # NoneStr /\ int(tabindex) # <<>> /\ int(tabindex)[1] > 0

\* The elements of the given document with such a tabindex, in document
\* order, and the positive_tabindex_removed changes, in the order logged.
GivenPositive == SelectSeq(DocOrder(html_content),
                           LAMBDA n : ParsesPositive(html_content.attrs[n].tabindex))
PositiveRemoved == SelectSeq(changes, LAMBDA c : c.type = "positive_tabindex_removed")

\* C5: once step 1 has run no element carries a tabindex that parses to an
\* integer above 0, and this still holds when remediate() returns; every
\* attribute removed has exactly one positive_tabindex_removed change with
\* its old value and new_value None; right after step 1 every other
\* tabindex (0, negative, not a number, absent) is as it was given; the
\* tab-order check run on the result reports no positive-tabindex issue.
C5_PositiveRemoved ==
    pc \in {"step2", "step3", "step4", "done"} =>
        /\ \A n \in TabNodes : ~ParsesPositive(soup.attrs[n].tabindex)
        /\ Len(PositiveRemoved) = Len(GivenPositive)
        /\ \A k \in 1..Len(GivenPositive) :
              /\ PositiveRemoved[k].old_value = html_content.attrs[GivenPositive[k]].tabindex
              /\ PositiveRemoved[k].new_value = NoneStr
              /\ PositiveRemoved[k].element_type = html_content.attrs[GivenPositive[k]].name
        /\ pc = "step2" =>
              \A n \in TabNodes :
                  ~ParsesPositive(html_content.attrs[n].tabindex) =>
                      soup.attrs[n].tabindex = html_content.attrs[n].tabindex
        /\ _check_positive_tabindex(soup) = <<>>

\* Reached: remediate() has returned on a document that held a positive
\* tabindex written "+1" next to a tabindex that is not a number.
C5_Witness ==
    /\ pc = "done"
    /\ \E n, m \in TabNodes :
          /\ html_content.attrs[n].tabindex = Str_plus1
          /\ soup.attrs[n].tabindex # Str_plus1
          /\ html_content.attrs[m].tabindex = Str_x
          /\ soup.attrs[m].tabindex = Str_x
    /\ Len(PositiveRemoved) >= 1

NativelyInteractive(node) == \E k \in 1..6 : MatchesSelector(node, k)

\* C6 (as claimed): an element that was given with tabindex="0" and has
\* lost it is not natively interactive, has no interactive role and no
\* event handler, and is the element an unnecessary-tabindex-zero issue of
\* the list was raised for.
C6_OnlyUnnecessaryZeroRemoved ==
    \A n \in TabNodes :
        (html_content.attrs[n].tabindex = Str_0 /\ soup.attrs[n].tabindex # Str_0) =>
            /\ ~NativelyInteractive(soup.attrs[n])
            /\ ~_has_interactive_role(soup.attrs[n])
            /\ ~_has_event_handlers(soup.attrs[n])
            /\ \E i \in 1..Len(issues) :
                  issues[i].type = "unnecessary-tabindex-zero" /\ issues[i].element = n

\* C7 (as claimed): when remediate() has returned, the target of every
\* skip link (href="#id", text containing "skip") that has a target carries
\* tabindex="-1".
C7_SkipTargetNegative ==
    pc = "done" =>
        \A n \in TabNodes :
            (/\ soup.attrs[n].name = "a" /\ soup.attrs[n].href # NoneStr
             /\ IsSkipLink(soup.attrs[n])
             /\ FindById(soup, Tail(soup.attrs[n].href)) # 0) =>
                soup.attrs[FindById(soup, Tail(soup.attrs[n].href))].tabindex = <<"-", "1">>

\* An interactive element with position data, as step 3 sees it.
Positioned(n) ==
    NativelyInteractive(html_content.attrs[n]) /\ _extract_bbox_data(html_content.attrs[n]) # <<>>

Unpositioned(children) == SelectSeq(children, LAMBDA c : ~Positioned(c))
PositionedOf(children) == SelectSeq(children, LAMBDA c : Positioned(c))

\* C8 (as claimed): every element has the parent it was given with, every
\* parent has the children it was given with, each once, and the children
\* that are not positioned interactive elements stand in the order given.
C8_NoCrossParentMove ==
    /\ \A n \in TabNodes : Parent(soup, n) = Parent(html_content, n)
    /\ \A p \in DOMAIN soup.contents :
          /\ Len(soup.contents[p]) = Len(html_content.contents[p])
          /\ \A k \in 1..Len(html_content.contents[p]) :
                Cardinality({ m \in 1..Len(soup.contents[p]) :
                                soup.contents[p][m] = html_content.contents[p][k] }) = 1
          /\ Unpositioned(soup.contents[p]) = Unpositioned(html_content.contents[p])

\* The canonical visual order of the document, and the part of it that
\* stands under one parent of the given document.
CanonicalOrder ==
    Elements(_sort_by_visual_position(_get_interactive_elements_with_position(html_content, 1)))
CanonicalUnder(p) ==
    SelectSeq(CanonicalOrder,
              LAMBDA n : \E k \in 1..Len(html_content.contents[p]) :
                            html_content.contents[p][k] = n)

HasMismatchIssue == \E i \in 1..Len(issues) : issues[i].type = "tab-order-mismatch"

\* The children stand at consecutive places of the list, in this order.
StandsIn(children, run) ==
    \E at \in 0..(Len(children) - Len(run)) :
        \A k \in 1..Len(run) : children[at + k] = run[k]

\* C9 (as claimed): after step 3, with a tab-order-mismatch issue and the
\* reordering enabled, the positioned interactive children of every parent
\* that has two or more stand in canonical visual order at consecutive
\* places among its children; with the reordering disabled or without such
\* an issue the children of every parent are as given and no dom_reordered
\* change is logged.
C9_ReorderedWithinParent ==
    pc \in {"step4", "done"} =>
        IF HasMismatchIssue /\ ReorderEnabled(options)
        THEN \A p \in DOMAIN html_content.contents :
                Len(PositionedOf(html_content.contents[p])) >= 2 =>
                    StandsIn(soup.contents[p], CanonicalUnder(p))
        ELSE /\ soup.contents = html_content.contents
             /\ \A i \in 1..Len(changes) : changes[i].type # "dom_reordered"

----------------------------------------------------------------------------
(* _sort_by_visual_position on its own: the lists of up to MaxPositioned   *)
(* elements placed at the points of SortPoints, <<x, y>>.                  *)

MaxPositioned == 4

SortPoints == { <<50, 0>>, <<10, 0>>, <<0, 100>>, <<0, 31>>, <<0, 10>>, <<0, 11>>, <<10, 10>> }

\* The element data of a list of points: the i-th element stands for node i.
ElementData(points) ==
    [i \in 1..Len(points) |->
        [element |-> i,
         bbox |-> [x |-> points[i][1], y |-> points[i][2], width |-> 5, height |-> 5]]]

SortInit ==
    /\ \E points \in SeqsUpTo(SortPoints, MaxPositioned) :
          elements_with_position = ElementData(points)
    /\ sorted_elements = <<>>
    /\ check_sorted_elements = <<>>
    /\ sort_calls = {}
    /\ sdoc = <<>> /\ parsed_rules = <<>>
    /\ StyleIdle /\ ContrastIdle /\ TabIdle /\ ManagerIdle

\* TabOrderRemediation._sort_by_visual_position(elements_with_position)
RemediationSort ==
    /\ "remediation" \notin sort_calls
    /\ sort_calls' = sort_calls \cup {"remediation"}
    /\ sorted_elements' = _sort_by_visual_position(elements_with_position)
    /\ UNCHANGED <<mvars, svars, cvars, tvars, elements_with_position, check_sorted_elements>>

\* TabOrderCheck._sort_by_visual_position(elements_with_position)
CheckSort ==
    /\ "check" \notin sort_calls
    /\ sort_calls' = sort_calls \cup {"check"}
    /\ check_sorted_elements' = Check_sort_by_visual_position(elements_with_position)
    /\ UNCHANGED <<mvars, svars, cvars, tvars, elements_with_position, sorted_elements>>

SortNext == RemediationSort \/ CheckSort

SortSpec == SortInit /\ [][SortNext]_vars

----------------------------------------------------------------------------
(* Claims about the visual order.                                          *)

\* The rows the input falls into, in creation order, and the row of an
\* element of the input.
InputRows == _group_into_rows(elements_with_position, RowThreshold)
RowOf(element) ==
    CHOOSE r \in 1..Len(InputRows) :
        \E k \in 1..Len(InputRows[r].elements) : InputRows[r].elements[k].element = element

\* a comes before b in the canonical order: an earlier row (smaller y_min,
\* or the same y_min and created first); in one row, a smaller x, or the
\* same x and an earlier arrival.
Before(a, b) ==
    IF RowOf(a.element) = RowOf(b.element)
    THEN \/ a.bbox.x < b.bbox.x
         \/ a.bbox.x = b.bbox.x /\ a.element < b.element
    ELSE \/ InputRows[RowOf(a.element)].y_min < InputRows[RowOf(b.element)].y_min
         \/ /\ InputRows[RowOf(a.element)].y_min = InputRows[RowOf(b.element)].y_min
            /\ RowOf(a.element) < RowOf(b.element)

IsPermutationOfInput(result) ==
    /\ Len(result) = Len(elements_with_position)
    /\ \A i \in 1..Len(elements_with_position) :
          Cardinality({ k \in 1..Len(result) : result[k] = elements_with_position[i] }) = 1

ExampleInput == ElementData(<< <<50, 0>>, <<10, 0>>, <<0, 100>> >>)

\* C10: _sort_by_visual_position returns a permutation of its input: the
\* rows in ascending y_min, each row in ascending x, ties (equal x in a row,
\* equal y_min of two rows) in arrival order; (y=0,x=50), (y=0,x=10),
\* (y=100,x=0) give [2nd, 1st, 3rd]; the checker's implementation returns
\* the same order as the remediator's.
C10_VisualOrder ==
    /\ "remediation" \in sort_calls =>
          /\ IsPermutationOfInput(sorted_elements)
          /\ \A i, j \in 1..Len(sorted_elements) :
                i < j => Before(sorted_elements[i], sorted_elements[j])
          /\ elements_with_position = ExampleInput =>
                sorted_elements = <<ExampleInput[2], ExampleInput[1], ExampleInput[3]>>
    /\ "check" \in sort_calls =>
          /\ IsPermutationOfInput(check_sorted_elements)
          /\ \A i, j \in 1..Len(check_sorted_elements) :
                i < j => Before(check_sorted_elements[i], check_sorted_elements[j])
    /\ sort_calls = {"remediation", "check"} =>
          sorted_elements = check_sorted_elements

\* Reached: both implementations have sorted four elements that fall into
\* two rows of equal y_min, one of them holding two elements of equal x.
C10_Witness ==
    /\ sort_calls = {"remediation", "check"}
    /\ Len(elements_with_position) = 4
    /\ Len(InputRows) = 2
    /\ InputRows[1].y_min = InputRows[2].y_min
    /\ \E i, j \in 1..4 :
          /\ i < j /\ RowOf(i) = RowOf(j)
          /\ elements_with_position[i].bbox.x = elements_with_position[j].bbox.x
    /\ sorted_elements # elements_with_position

----------------------------------------------------------------------------
(* TabOrderCheck.check() on the documents of TabDocs.                      *)

AuditInit ==
    /\ html_content \in TabDocs
    /\ soup = html_content
    /\ issues = <<>>
    /\ options = <<>>
    /\ changes = <<>>
    /\ returned = <<>>
    /\ pc = "check"
    /\ sdoc = <<>> /\ parsed_rules = <<>>
    /\ StyleIdle /\ ContrastIdle /\ SortIdle /\ ManagerIdle

\* TabOrderCheck.check()
TabOrderAudit ==
    /\ pc = "check"
    /\ issues' = TabOrderCheck(soup)
    /\ pc' = "checked"
    /\ UNCHANGED <<mvars, svars, cvars, pvars, html_content, soup, options, changes, returned>>

AuditNext == TabOrderAudit

AuditSpec == AuditInit /\ [][AuditNext]_vars

\* The interactive elements of the document in document order, and those
\* of them that carry position data with their place in that order.
InteractivePreorder ==
    SelectSeq(DocOrder(soup), LAMBDA n : \E k \in 1..7 : MatchesSelector(soup.attrs[n], k))
PositionedPreorder == _get_elements_with_position(soup, InteractivePreorder, 0)

\* C11 (as claimed): the dom_index of every element the check gives a
\* position is its index, from 0, among the interactive elements in
\* document order; and when the positioned interactive elements stand in
\* the document in their visual order, check() reports no
\* tab-order-mismatch issue.
C11_DomIndexIsPreorder ==
    pc = "checked" =>
        /\ \A i \in 1..Len(_get_elements_with_position(soup, _get_interactive_elements(soup), 0)) :
              InteractivePreorder[
                  _get_elements_with_position(soup, _get_interactive_elements(soup), 0)[i].dom_index
                  + 1]
              = _get_elements_with_position(soup, _get_interactive_elements(soup), 0)[i].element
        /\ Check_sort_by_visual_position(PositionedPreorder) = PositionedPreorder =>
              \A i \in 1..Len(issues) : issues[i].type # "tab-order-mismatch"

----------------------------------------------------------------------------
(* StyleResolver's colour functions: get_background_color on a <div> with  *)
(* a <p> child whose backgrounds come from inline styles and rules, and    *)
(* _normalize_color on the colour values of ColourValues.                  *)

Str_Transparent == <<"T", "r", "a", "n", "s", "p", "a", "r", "e", "n", "t">>
Str_red == <<"r", "e", "d">>

\* The background-color values of the documents.
BackgroundValues == { Hex444, Str_red, Transparent, Str_Transparent }

BackgroundBlocks ==
    { Block(s, <<<<"background-color", v>>>>) : s \in {SelP, SelDiv}, v \in {Hex222, Transparent} }
    \cup { Block(SelX, <<<<"background-color", Hex333>>>>) }

BackgroundStyles == { <<>> } \cup { <<<<"background-color", v>>>> : v \in BackgroundValues }

BackgroundDocs ==
    { << [name |-> "div", id |-> None, class |-> {}, style |-> ps, parent |-> 0],
         [name |-> "p", id |-> None, class |-> c, style |-> cs, parent |-> 1] >> :
        ps \in BackgroundStyles, c \in { {}, {"x"} }, cs \in BackgroundStyles }

Str_abc == <<"#", "a", "b", "c">>
Str_A1b2C3 == <<"#", "A", "1", "b", "2", "C", "3">>
Str_hex8 == <<"#", "1", "1", "2", "2", "3", "3", "4", "4">>
Str_ggg == <<"#", "g", "g", "g">>
Str_hex4 == <<"#", "1", "2", "3", "4">>
Str_hex5 == <<"#", "1", "2", "3", "4", "5">>
Str_hex7 == <<"#", "1", "2", "3", "4", "5", "6", "7">>
Str_rgb_red == <<"r", "g", "b", "(", "2", "5", "5", ",", " ", "0", ",", " ", "0", ")">>
Str_rgb_300 == <<"r", "g", "b", "(", "3", "0", "0", ",", "0", ",", "0", ")">>
Str_rgba == <<"r", "g", "b", "a", "(", "1", ",", "2", ",", "3", ",", "0", ".", "5", ")">>
Str_hsl_0 == <<"h", "s", "l", "(", "0", ",", "1", "0", "0", "%", ",", "5", "0", "%", ")">>
Str_hsl_360 == <<"h", "s", "l", "(", "3", "6", "0", ",", "1", "0", "0", "%", ",", "5", "0", "%", ")">>
Str_hsla_120 == <<"h", "s", "l", "a", "(", "1", "2", "0", ",", " ", "1", "0", "0", "%", ",", " ", "2", "5", "%", ",", " ", "0", ".", "5", ")">>
Str_White_padded == <<" ", "W", "h", "i", "t", "e", " ">>
Str_orange == <<"o", "r", "a", "n", "g", "e">>
Str_empty == <<>>

\* The colour values _normalize_color is called with: the values above, the
\* values of the documents and every name of the named_colors table.
ColourValues ==
    { Str_abc, Str_A1b2C3, Str_hex8, Str_ggg,
      Str_hex4, Str_hex5, Str_hex7, Str_rgb_red,
      Str_rgb_300, Str_rgba, Str_hsl_0, Str_hsl_360,
      Str_hsla_120, Str_White_padded, Str_orange, Str_empty }
    \cup BackgroundValues
    \cup { named_colors[i][1] : i \in DOMAIN named_colors }

ColourInit ==
    /\ sdoc \in BackgroundDocs
    /\ \E blocks \in SeqsUpTo(BackgroundBlocks, MaxRules) : parsed_rules = _parse_css_text(blocks)
    /\ squery = <<>>
    /\ sresult = NoneStr
    /\ ContrastIdle /\ TabIdle /\ SortIdle /\ ManagerIdle

\* One call of get_background_color(element).
GetBackgroundColor ==
    /\ squery = <<>>
    /\ \E e \in DOMAIN sdoc :
          /\ squery' = <<"get_background_color", e, <<>> >>
          /\ sresult' = get_background_color(parsed_rules, sdoc, e)
    /\ UNCHANGED <<mvars, sdoc, parsed_rules, cvars, tvars, pvars>>

\* One call of _normalize_color(color).
NormalizeColor ==
    /\ squery = <<>>
    /\ \E color \in ColourValues :
          /\ squery' = <<"_normalize_color", 0, color>>
          /\ sresult' = _normalize_color(color)
    /\ UNCHANGED <<mvars, sdoc, parsed_rules, cvars, tvars, pvars>>

ColourNext == GetBackgroundColor \/ NormalizeColor

ColourSpec == ColourInit /\ [][ColourNext]_vars

----------------------------------------------------------------------------
(* Claims about the colour functions.                                      *)

\* The nodes from e up to the root element, nearest first.
RECURSIVE PathToRoot(_)
PathToRoot(e) == IF e = 0 THEN <<>> ELSE <<e>> \o PathToRoot(sdoc[e].parent)

\* The computed background-color of node n: the inline value or the value
\* of a matching rule, the default otherwise; never the parent's.
ComputedBackground(n) ==
    IF InlineDeclares(n, "background-color")
    THEN _get_inline_style_property(sdoc, n, "background-color")
    ELSE IF Declaring(n, "background-color") # {}
    THEN get_computed_style(parsed_rules, sdoc, n, "background-color")
    ELSE Transparent

\* A value that is the keyword transparent, in any case.
IsTransparent(value) == Lower(Strip(value)) = Transparent

\* The nodes of the path whose computed background is not transparent.
Opaque(e) == SelectSeq(PathToRoot(e), LAMBDA n : ~IsTransparent(ComputedBackground(n)))

\* C12: get_background_color returns the normalised background-color of
\* the nearest node on the path from the element to the root whose computed
\* background-color is not transparent, #FFFFFF when every node on the path
\* is transparent, and never the value transparent.
C12_NearestOpaqueBackground ==
    (squery # <<>> /\ squery[1] = "get_background_color") =>
        /\ sresult # Transparent
        /\ sresult = IF Opaque(squery[2]) = <<>> THEN White
                     ELSE _normalize_color(ComputedBackground(Opaque(squery[2])[1]))

\* "#" followed by six upper-case hexadecimal digits.
IsCanonicalHex(value) ==
    /\ Len(value) = 7
    /\ value[1] = "#"
    /\ \A i \in 2..7 : IsHexDigit(value[i]) /\ UpperChar(value[i]) = value[i]

\* C13: for every input _normalize_color returns either transparent or "#"
\* followed by six upper-case hexadecimal digits, and normalising its result
\* again returns the result unchanged.
C13_CanonicalAndIdempotent ==
    (squery # <<>> /\ squery[1] = "_normalize_color") =>
        /\ sresult = Transparent \/ IsCanonicalHex(sresult)
        /\ _normalize_color(sresult) = sresult

\* The sRGB channels of hsl(h, s%, l%) by the piecewise hue function, in
\* units of 1/600000: chroma, second component and offset.
HslChroma(s, l) == (100 - Abs(2 * l - 100)) * s
HslChannel(v, s, l) ==
    (2 * 255 * (v + l * 6000 - HslChroma(s, l) * 30) + 600000) \div 1200000
HslToRgb(h, s, l) ==
    LET c == HslChroma(s, l) * 60
        x == HslChroma(s, l) * (60 - Abs(((h % 360) % 120) - 60))
        sector == (h % 360) \div 60
        parts == CASE sector = 0 -> <<c, x, 0>>
                   [] sector = 1 -> <<x, c, 0>>
                   [] sector = 2 -> <<0, c, x>>
                   [] sector = 3 -> <<0, x, c>>
                   [] sector = 4 -> <<x, 0, c>>
                   [] OTHER      -> <<c, 0, x>>
    IN  <<HslChannel(parts[1], s, l), HslChannel(parts[2], s, l), HslChannel(parts[3], s, l)>>

\* h, s%, l% read at index i: the three numbers, <<>> when the text does not fit.
HslLightness(str, i, h, s) ==
    IF SkipDigits(str, i) > i /\ SkipDigits(str, i) <= Len(str) /\ str[SkipDigits(str, i)] = "%"
    THEN <<h, s, DecValue(SubSeq(str, i, SkipDigits(str, i) - 1))>> ELSE <<>>
HslAfterSaturation(str, i, h, s) ==
    IF i <= Len(str) /\ str[i] = "%" /\ SkipSpaces(str, i + 1) <= Len(str)
       /\ str[SkipSpaces(str, i + 1)] = ","
    THEN HslLightness(str, SkipSpaces(str, SkipSpaces(str, i + 1) + 1), h, s) ELSE <<>>
HslSaturation(str, i, h) ==
    IF SkipDigits(str, i) > i
    THEN HslAfterSaturation(str, SkipDigits(str, i), h, DecValue(SubSeq(str, i, SkipDigits(str, i) - 1)))
    ELSE <<>>
HslAfterHue(str, i, h) ==
    IF i <= Len(str) /\ str[i] = "," THEN HslSaturation(str, SkipSpaces(str, i + 1), h) ELSE <<>>
HslHue(str, i) ==
    IF SkipDigits(str, i) > i
    THEN HslAfterHue(str, SkipSpaces(str, SkipDigits(str, i)), DecValue(SubSeq(str, i, SkipDigits(str, i) - 1)))
    ELSE <<>>
HslMatch(str) ==
    IF StartsWith(str, <<"h", "s", "l", "(">>) THEN HslHue(str, SkipSpaces(str, 5))
    ELSE IF StartsWith(str, <<"h", "s", "l", "a", "(">>) THEN HslHue(str, SkipSpaces(str, 6))
    ELSE <<>>

AllHex(str) == \A i \in 1..Len(str) : IsHexDigit(str[i])
HexOfChannels(rgb) == <<"#">> \o Format02X(rgb[1]) \o Format02X(rgb[2]) \o Format02X(rgb[3])

\* The canonical hex of a value written in a supported syntax (the value
\* lower-cased and trimmed), <<>> for any other text.
CanonicalOfRgb(numbers) ==
    IF numbers # <<>> /\ \A i \in 1..3 : numbers[i] <= 255 THEN HexOfChannels(numbers) ELSE <<>>
CanonicalOfHsl(numbers) ==
    IF numbers # <<>> /\ numbers[2] <= 100 /\ numbers[3] <= 100
    THEN HexOfChannels(HslToRgb(numbers[1], numbers[2], numbers[3])) ELSE <<>>
CanonicalOfHex(digits) ==
    IF ~AllHex(digits) THEN <<>>
    ELSE IF Len(digits) = 3
    THEN Upper(<<"#", digits[1], digits[1], digits[2], digits[2], digits[3], digits[3]>>)
    ELSE IF Len(digits) \in {6, 8} THEN Upper(<<"#">> \o SubSeq(digits, 1, 6))
    ELSE <<>>
CanonicalOf(color) ==
    IF StartsWith(color, <<"#">>) THEN CanonicalOfHex(Tail(color))
    ELSE IF StartsWith(color, <<"r", "g", "b">>) THEN CanonicalOfRgb(RgbMatch(color, TRUE, FALSE))
    ELSE IF StartsWith(color, <<"h", "s", "l">>) THEN CanonicalOfHsl(HslMatch(color))
    ELSE IF \E i \in DOMAIN named_colors : named_colors[i][1] = color
    THEN named_colors[CHOOSE i \in DOMAIN named_colors : named_colors[i][1] = color][2]
    ELSE <<>>

\* C14: normalisation maps every supported syntax to the canonical hex of
\* the same colour: 3-digit hex doubled, 8-digit hex without its alpha,
\* rgb()/rgba() without alpha, hsl()/hsla() converted with the hue modulo
\* 360, and every name of the table to its value.
C14_EverySyntaxAccepted ==
    (squery # <<>> /\ squery[1] = "_normalize_color"
       /\ CanonicalOf(Lower(Strip(squery[3]))) # <<>>) =>
        sresult = CanonicalOf(Lower(Strip(squery[3])))

----------------------------------------------------------------------------
(* ColorContrastCheck._is_large_text on a <div> with one child: the font   *)
(* sizes and weights come from inline styles and from rules.               *)

Str_23_9px == <<"2", "3", ".", "9", "p", "x">>
Str_18_1pt == <<"1", "8", ".", "1", "p", "t">>
Str_14pt == <<"1", "4", "p", "t">>
Str_14_1pt == <<"1", "4", ".", "1", "p", "t">>
Str_1_5em == <<"1", ".", "5", "e", "m">>
Str_1_2rem == <<"1", ".", "2", "r", "e", "m">>
Str_20 == <<"2", "0">>
Str_dot5em == <<".", "5", "e", "m">>
Str_18_67px == <<"1", "8", ".", "6", "7", "p", "x">>
Str_12px == <<"1", "2", "p", "x">>
Str_bold == <<"b", "o", "l", "d">>
Str_bolder == <<"b", "o", "l", "d", "e", "r">>
Str_700 == <<"7", "0", "0">>
Str_699 == <<"6", "9", "9">>
Str_normal == <<"n", "o", "r", "m", "a", "l">>

FontSizes == { Str_24px, Str_18pt, Str_23_9px, Str_18_1pt, Str_14pt, Str_14_1pt,
               Str_1_5em, Str_1_2rem, Str_20, Str_dot5em, Str_18_67px, Str_12px }
FontWeights == { Str_bold, Str_bolder, Str_700, Str_699, Str_normal }

FontDocs ==
    { << [name |-> "div", id |-> None, class |-> {}, style |-> <<>>, parent |-> 0],
         [name |-> n, id |-> None, class |-> {}, style |-> fs \o fw, parent |-> 1] >> :
        n  \in {"p", "h1", "h3", "h4", "b", "strong"},
        fs \in Decl("font-size", FontSizes),
        fw \in Decl("font-weight", FontWeights) }

\* A rule that shrinks the headings, a rule that makes paragraphs bold.
FontSheets ==
    { <<>>,
      << Block(Sel("element", "h1", None, None), <<<<"font-size", Str_12px>>>>) >>,
      << Block(SelP, <<<<"font-weight", Str_bold>>>>) >>,
      << Block(SelP, <<<<"font-size", Str_24px>>>>) >> }

LargeTextInit ==
    /\ sdoc \in FontDocs
    /\ \E blocks \in FontSheets : parsed_rules = _parse_css_text(blocks)
    /\ squery = <<>>
    /\ sresult = NoneStr
    /\ ContrastIdle /\ TabIdle /\ SortIdle /\ ManagerIdle

\* One call of _is_large_text(element); the result is <<TRUE>> or <<FALSE>>.
IsLargeText ==
    /\ squery = <<>>
    /\ \E e \in DOMAIN sdoc :
          /\ squery' = <<"_is_large_text", e, <<>> >>
          /\ sresult' = << _is_large_text(parsed_rules, sdoc, e) >>
    /\ UNCHANGED <<mvars, sdoc, parsed_rules, cvars, tvars, pvars>>

LargeTextNext == IsLargeText

LargeTextSpec == LargeTextInit /\ [][LargeTextNext]_vars

----------------------------------------------------------------------------
(* Claims about large text.                                                *)

\* A font-size value read as a CSS length, digits with an optional fraction
\* then px, pt, em, rem or nothing: its size in millionths of a pixel,
\* <<>> for any other text.
LengthUnit(rest, thousandths) ==
    IF rest = <<"p", "t">> THEN <<thousandths * 1333>>
    ELSE IF rest \in { <<"e", "m">>, <<"r", "e", "m">> } THEN <<thousandths * 16000>>
    ELSE IF rest \in { <<>>, <<"p", "x">> } THEN <<thousandths * 1000>>
    ELSE <<>>
LengthFraction(str, a, f) ==
    IF f = 1 \/ (a = 1 /\ f = 2) THEN <<>>
    ELSE LengthUnit(SubSeq(str, f, Len(str)),
                    1000 * DecValue(SubSeq(str, 1, a - 1))
                      + DecValue(SubSeq(SubSeq(str, a + 1, f - 1) \o <<"0", "0", "0">>, 1, 3)))
LengthInPx(str) ==
    IF SkipDigits(str, 1) <= Len(str) /\ str[SkipDigits(str, 1)] = "."
    THEN LengthFraction(str, SkipDigits(str, 1), SkipDigits(str, SkipDigits(str, 1) + 1))
    ELSE LengthFraction(str, SkipDigits(str, 1), SkipDigits(str, 1))

\* The resolved font-size of e in millionths of a pixel.
ResolvedSize(e) == LengthInPx(get_font_size(parsed_rules, sdoc, e))

\* Bold: tag b or strong, weight bold or bolder, or a number of 700 and more.
ResolvedBold(e) ==
    \/ sdoc[e].name \in {"b", "strong"}
    \/ get_font_weight(parsed_rules, sdoc, e) \in {Str_bold, Str_bolder}
    \/ /\ get_font_weight(parsed_rules, sdoc, e) # <<>>
       /\ \A i \in DOMAIN get_font_weight(parsed_rules, sdoc, e) :
              IsDigit(get_font_weight(parsed_rules, sdoc, e)[i])
       /\ DecValue(get_font_weight(parsed_rules, sdoc, e)) >= 700

\* C15: h1, h2 and h3 are large text whatever their font size; any other
\* element is large exactly when its resolved font-size in px (pt * 1.333,
\* em and rem * 16) is at least 24, or at least 18.67 and the element is bold.
C15_LargeText ==
    (squery # <<>> /\ squery[1] = "_is_large_text") =>
        sresult[1] =
            ( \/ sdoc[squery[2]].name \in {"h1", "h2", "h3"}
              \/ /\ ResolvedSize(squery[2]) # <<>>
                 /\ \/ ResolvedSize(squery[2])[1] >= 24000000
                    \/ ResolvedSize(squery[2])[1] >= 18670000 /\ ResolvedBold(squery[2]) )

\* C16: text whose resolved font-size is exactly 18pt is large text, and
\* bold text whose resolved font-size is exactly 14pt is large text.
C16_PointSizesAreLarge ==
    (squery # <<>> /\ squery[1] = "_is_large_text") =>
        /\ get_font_size(parsed_rules, sdoc, squery[2]) = Str_18pt => sresult[1]
        /\ (get_font_size(parsed_rules, sdoc, squery[2]) = Str_14pt /\ ResolvedBold(squery[2]))
              => sresult[1]

----------------------------------------------------------------------------
(* remediate() run again on its own output: a new TabOrderRemediation is   *)
(* built on the document the last call returned.                           *)

\* Calls of remediate() in a row.
MaxRuns == 2

Str_minus1 == <<"-", "1">>

\* Skip links, their targets and other elements, side by side.
RerunElements ==
    { Node("a", NoneStr, <<>>, None, {}, Str_hash_main, Str_Skip, NoneStr, <<>>),
      Node("main", Str_main, <<>>, None, {}, NoneStr, Str_Go, NoneStr, <<>>),
      Node("div", Str_main, <<>>, None, {}, NoneStr, Str_Go, Str_0, <<>>),
      Node("section", Str_main, <<>>, None, {}, NoneStr, Str_Go, Str_plus1, <<>>),
      Node("p", Str_x, <<>>, None, {}, NoneStr, Str_Go, NoneStr, <<>>) }

\* A skip link, its target and another link, with positions.
RerunLeaves ==
    { Node("a", NoneStr, <<>>, None, {}, Str_hash_main, Str_Skip, NoneStr, <<10, 0, 5, 5>>),
      Node("button", Str_main, <<>>, None, {}, NoneStr, Str_Go, NoneStr, <<0, 15, 5, 5>>),
      Node("a", NoneStr, <<>>, None, {}, Str_path, Str_Go, NoneStr, <<0, 30, 5, 5>>) }

RerunDocs ==
    { FlatSoup(elements) : elements \in SeqsUpTo(RerunElements, MaxElements) \ { <<>> } }
    \cup
    { TreeSoup(leaves, Len(leaves)) :
        leaves \in { q \in SeqsUpTo(RerunLeaves, MaxElements) : Len(q) >= 2 } }

RerunInit ==
    /\ html_content \in RerunDocs
    /\ soup = html_content
    /\ \E choice \in {"audit", "none", "mismatch"} : issues = IssueList(html_content, choice)
    /\ options = EmptyDict
    /\ changes = <<>>
    /\ returned = <<>>
    /\ pc = "step1"
    /\ sdoc = <<>> /\ parsed_rules = <<>>
    /\ StyleIdle /\ ContrastIdle /\ SortIdle /\ ManagerIdle

\* remediate() has returned (str(soup), changes); a new instance is built
\* on that document, with the same issues or with the issues of a new audit.
RemediateAgain ==
    /\ pc = "done"
    /\ Len(returned) + 1 < MaxRuns
    /\ html_content' = soup
    /\ \E choice \in {"same", "audit", "none"} :
          issues' = IF choice = "same" THEN issues ELSE IssueList(soup, choice)
    /\ changes' = <<>>
    /\ returned' = Append(returned, changes)
    /\ pc' = "step1"
    /\ UNCHANGED <<mvars, svars, cvars, pvars, soup, options>>

RerunNext == TabNext \/ RemediateAgain

RerunSpec == RerunInit /\ [][RerunNext]_vars

----------------------------------------------------------------------------
(* Claims about repeated remediation.                                      *)

RECURSIVE Flatten(_)
Flatten(lists) == IF lists = <<>> THEN <<>> ELSE lists[1] \o Flatten(Tail(lists))

\* The changes logged by all the calls so far.
AllChanges == Flatten(returned) \o changes

\* The tabindex_negative_added changes logged for the element identified by t.
NegativeAdded(t) ==
    { i \in DOMAIN AllChanges :
        AllChanges[i].type = "tabindex_negative_added" /\ AllChanges[i].element = t }

\* C17: patching skip-link targets is idempotent: over any number of runs
\* and any number of skip links to one target, at most one
\* tabindex_negative_added change is logged per target, and in a run on the
\* output of an earlier run a tabindex of "-1" stays "-1".
C17_SkipTargetPatchedOnce ==
    /\ \A n \in 1..Len(soup.attrs) :
          Cardinality(NegativeAdded(_get_element_identifier(soup, n))) <= 1
    /\ returned # <<>> =>
          \A n \in 1..Len(soup.attrs) :
              html_content.attrs[n].tabindex = Str_minus1 => soup.attrs[n].tabindex = Str_minus1

\* Two skip links to one target, patched in the first run, and a second run
\* on the output that has ended.
C17_Witness ==
    /\ pc = "done"
    /\ Len(returned) = 1
    /\ Cardinality({ n \in 1..Len(soup.attrs) : IsSkipLink(soup.attrs[n]) }) >= 2
    /\ \E i \in DOMAIN returned[1] : returned[1][i].type = "tabindex_negative_added"
    /\ \E n \in 1..Len(soup.attrs) :
          soup.attrs[n].id = Str_main /\ soup.attrs[n].tabindex = Str_minus1

----------------------------------------------------------------------------
(* NonTextContrastCheck                                                    *)

\* The first match of #[0-9a-fA-F]{3,6}|rgb\([^)]+\) in a value, <<>> when
\* there is none.
RECURSIVE ClosingAfter(_, _)
ClosingAfter(str, i) ==
    IF i > Len(str) THEN 0 ELSE IF str[i] = ")" THEN i ELSE ClosingAfter(str, i + 1)

ColourMatchAt(str, i) ==
    IF str[i] = "#" /\ HexRun(str, i + 1, 0) >= 3
    THEN SubSeq(str, i, i + HexRun(str, i + 1, 0))
    ELSE IF StartsWith(SubSeq(str, i, Len(str)), <<"r", "g", "b", "(">>)
            /\ ClosingAfter(str, i + 4) > i + 4
    THEN SubSeq(str, i, ClosingAfter(str, i + 4))
    ELSE <<>>

RECURSIVE ColourSearch(_, _)
ColourSearch(str, i) ==
    IF i > Len(str) THEN <<>>
    ELSE IF ColourMatchAt(str, i) # <<>> THEN ColourMatchAt(str, i)
    ELSE ColourSearch(str, i + 1)

\* _get_border_color: border-color, else the colour of the border
\* shorthand; NoneStr when there is neither.
BorderShorthand(border) ==
    IF border # NoneStr /\ border # <<>> /\ ColourSearch(border, 1) # <<>>
    THEN _normalize_color(ColourSearch(border, 1)) ELSE NoneStr

_get_border_color(rules, doc, e) ==
    IF get_computed_style(rules, doc, e, "border-color") \notin {NoneStr, <<>>}
    THEN _normalize_color(get_computed_style(rules, doc, e, "border-color"))
    ELSE BorderShorthand(get_computed_style(rules, doc, e, "border"))

\* _get_adjacent_color
_get_adjacent_color(rules, doc, e) ==
    IF doc[e].parent # 0 THEN get_background_color(rules, doc, doc[e].parent) ELSE White

NonTextIssue(type, e) == [type |-> type, criterion |-> "1.4.11", severity |-> "major", element |-> e]

\* One comparison against 3:1: the issue when the ratio is below it, raised
\* when _hex_to_rgb cannot convert one of the colours.  A colour that is
\* None, empty, or one of the skipped words is not compared.
Compare(type, e, color, skipped, adjacent_color) ==
    IF color = NoneStr \/ color = <<>> \/ color \in skipped \/ adjacent_color = <<>>
    THEN [issues |-> <<>>, raised |-> FALSE]
    ELSE IF _hex_to_rgb(color) = <<>> \/ _hex_to_rgb(adjacent_color) = <<>>
    THEN [issues |-> <<>>, raised |-> TRUE]
    ELSE [issues |-> IF RatioBelow(_calculate_contrast_ratio(color, adjacent_color), 30)
                     THEN <<NonTextIssue(type, e)>> ELSE <<>>,
          raised |-> FALSE]

\* The second of two steps runs when the first did not raise.
Then(first, second) ==
    IF first.raised THEN first
    ELSE [issues |-> first.issues \o second.issues, raised |-> second.raised]

\* 'display:none' in style_attr or 'visibility:hidden' in style_attr, the
\* declaration written without a blank.
Hidden(doc, e) ==
    \E i \in DOMAIN doc[e].style :
        doc[e].style[i] \in { <<"display", <<"n", "o", "n", "e">> >>,
                              <<"visibility", <<"h", "i", "d", "d", "e", "n">> >> }

\* The body of the loop of _check_ui_components for one element.
CheckUiComponent(rules, doc, e) ==
    IF Hidden(doc, e) THEN [issues |-> <<>>, raised |-> FALSE]
    ELSE Then(Compare("insufficient-ui-component-contrast", e,
                      _get_border_color(rules, doc, e), {Transparent},
                      _get_adjacent_color(rules, doc, e)),
              IF doc[e].name \in {"button", "input", "select", "textarea"}
              THEN Compare("insufficient-ui-component-contrast", e,
                           get_background_color(rules, doc, e), {Transparent},
                           _get_adjacent_color(rules, doc, e))
              ELSE [issues |-> <<>>, raised |-> FALSE])

\* The fill or the stroke of one <svg>: normalised, then compared unless
\* transparent.
CheckPaint(rules, doc, e, paint) ==
    IF paint = NoneStr \/ paint = <<>> \/ paint \in { <<"n", "o", "n", "e">>, Transparent }
    THEN [issues |-> <<>>, raised |-> FALSE]
    ELSE Compare("insufficient-icon-contrast", e, _normalize_color(paint), {Transparent},
                 _get_adjacent_color(rules, doc, e))

\* The body of the loop of _check_graphical_objects for one <svg>.
CheckGraphicalObject(rules, doc, e) ==
    IF doc[e].aria_hidden = "true" \/ doc[e].role = "presentation"
    THEN [issues |-> <<>>, raised |-> FALSE]
    ELSE Then(CheckPaint(rules, doc, e, doc[e].fill), CheckPaint(rules, doc, e, doc[e].stroke))

\* _check_ui_components and _check_graphical_objects: the elements in
\* document order; an exception ends the check.
RECURSIVE _check_ui_components(_, _, _)
_check_ui_components(rules, doc, e) ==
    IF e > Len(doc) THEN [issues |-> <<>>, raised |-> FALSE]
    ELSE IF doc[e].name \notin {"button", "input", "select", "textarea", "a"}
    THEN _check_ui_components(rules, doc, e + 1)
    ELSE Then(CheckUiComponent(rules, doc, e), _check_ui_components(rules, doc, e + 1))

RECURSIVE _check_graphical_objects(_, _, _)
_check_graphical_objects(rules, doc, e) ==
    IF e > Len(doc) THEN [issues |-> <<>>, raised |-> FALSE]
    ELSE IF doc[e].name # "svg" THEN _check_graphical_objects(rules, doc, e + 1)
    ELSE Then(CheckGraphicalObject(rules, doc, e), _check_graphical_objects(rules, doc, e + 1))

\* NonTextContrastCheck.check()
NonTextContrastCheck(rules, doc) ==
    Then(_check_ui_components(rules, doc, 1), _check_graphical_objects(rules, doc, 1))

----------------------------------------------------------------------------
(* Both contrast checks on a <div> with one child that carries colour      *)
(* values of every kind: a paragraph, a link or a button with inline       *)
(* colours, or an <svg> with fill and stroke.                              *)

PaintValues == { Str_777, Str_rgb_300, Str_ggg, Str_hex4, Str_hex5, Str_hex7, Str_orange }

PaintNode(name, style, parent, text, fill, stroke) ==
    [name |-> name, id |-> None, class |-> {}, style |-> style, parent |-> parent,
     text |-> text, fill |-> fill, stroke |-> stroke, aria_hidden |-> None, role |-> None]

PaintDocs ==
    { << PaintNode("div", ps, 0, FALSE, NoneStr, NoneStr),
         PaintNode(n, col \o bg \o bc, 1, TRUE, NoneStr, NoneStr) >> :
        ps  \in Decl("background-color", {Str_000, Str_Transparent}),
        n   \in {"p", "a", "button"},
        col \in Decl("color", PaintValues),
        bg  \in Decl("background-color", PaintValues),
        bc  \in Decl("border-color", PaintValues) }
    \cup
    { << PaintNode("div", ps, 0, FALSE, NoneStr, NoneStr),
         PaintNode("svg", <<>>, 1, FALSE, fill, stroke) >> :
        ps     \in Decl("background-color", {Str_000, Str_Transparent}),
        fill   \in {NoneStr} \cup PaintValues,
        stroke \in {NoneStr, Str_777, Str_ggg} }

PaintInit ==
    /\ sdoc \in PaintDocs
    /\ parsed_rules = <<>>
    /\ contrast_level \in {"AA", "AAA"}
    /\ cissues = <<>>
    /\ cstate = "idle"
    /\ StyleIdle /\ TabIdle /\ SortIdle /\ ManagerIdle

\* NonTextContrastCheck.check()
NonTextCheck ==
    /\ cstate = "idle"
    /\ cissues' = NonTextContrastCheck(parsed_rules, sdoc).issues
    /\ cstate' = IF NonTextContrastCheck(parsed_rules, sdoc).raised THEN "raised" ELSE "done"
    /\ UNCHANGED <<mvars, sdoc, parsed_rules, squery, sresult, contrast_level, tvars, pvars>>

PaintNext == Check \/ NonTextCheck

PaintSpec == PaintInit /\ [][PaintNext]_vars

\* C18: ColorContrastCheck.check() and NonTextContrastCheck.check() complete
\* without raising for every document, whatever colour values its inline
\* styles and its fill and stroke attributes hold.
C18_ChecksNeverRaise == cstate # "raised"

----------------------------------------------------------------------------
(* remediate() on issue lists a caller wrote: records of the type          *)
(* unnecessary-tabindex-zero whose target is not in the document or whose  *)
(* context is missing, None or a string, before the issues of an audit.    *)

GivenIssue(context, context_type) ==
    [type |-> "unnecessary-tabindex-zero", wcag_criterion |-> "2.4.3", severity |-> "minor",
     element |-> 0, context |-> context, context_type |-> context_type]

\* A target that is in no document: no element has this id or this name.
Str_nowhere == <<"n", "o", "w", "h", "e", "r", "e">>
Unlocatable ==
    GivenIssue([element_id |-> Str_nowhere, element_name |-> "article", element_class |-> <<>>],
               "dict")
Unnamed ==
    GivenIssue([element_id |-> NoneStr, element_name |-> "article", element_class |-> <<>>],
               "dict")

GivenIssues ==
    << Unlocatable, Unnamed, GivenIssue(None, "absent"), GivenIssue(None, "NoneType"),
       GivenIssue(Str_x, "str") >>

GivenInit ==
    /\ html_content \in RerunDocs
    /\ soup = html_content
    /\ \E g \in DOMAIN GivenIssues, choice \in {"audit", "mismatch"} :
          issues = <<GivenIssues[g]>> \o IssueList(html_content, choice)
    /\ options = EmptyDict
    /\ changes = <<>>
    /\ returned = <<>>
    /\ pc = "step1"
    /\ sdoc = <<>> /\ parsed_rules = <<>>
    /\ StyleIdle /\ ContrastIdle /\ SortIdle /\ ManagerIdle

GivenSpec == GivenInit /\ [][TabNext]_vars

\* C19: remediate() never aborts mid-pass: for every issue list, also one
\* with unnecessary-tabindex-zero records whose target cannot be located or
\* whose context is absent, None or a string, it runs its steps to the end
\* and returns without raising.
C19_NeverAborts == pc # "raised"

----------------------------------------------------------------------------
(* _sort_by_visual_position under a configuration: the options hold a row  *)
(* threshold or none.                                                      *)

ConfiguredThreshold == [tab_order_row_threshold |-> 40]

ConfiguredInit ==
    /\ \E points \in SeqsUpTo(SortPoints, MaxPositioned) :
          elements_with_position = ElementData(points)
    /\ sorted_elements = <<>>
    /\ check_sorted_elements = <<>>
    /\ sort_calls = {}
    /\ options \in {EmptyDict, ConfiguredThreshold}
    /\ html_content = <<>> /\ soup = <<>> /\ issues = <<>>
    /\ changes = <<>> /\ pc = "idle" /\ returned = <<>>
    /\ sdoc = <<>> /\ parsed_rules = <<>>
    /\ StyleIdle /\ ContrastIdle /\ ManagerIdle

ConfiguredSpec == ConfiguredInit /\ [][SortNext]_vars

\* The threshold the configuration asks for: the supplied value, 20 without.
SuppliedThreshold ==
    IF "tab_order_row_threshold" \in DOMAIN options
    THEN options["tab_order_row_threshold"] ELSE RowThreshold

\* The reading order under the supplied threshold.
SuppliedOrder ==
    IF elements_with_position = <<>> THEN <<>>
    ELSE ExtendRows(SortRows(_group_into_rows(elements_with_position, SuppliedThreshold)))

\* C20: the row grouping of the checker and of the remediator uses the
\* threshold the configuration supplies, and 20 when it supplies none.
C20_ThresholdConfigurable ==
    /\ "remediation" \in sort_calls => sorted_elements = SuppliedOrder
    /\ "check" \in sort_calls => check_sorted_elements = SuppliedOrder

----------------------------------------------------------------------------
(* AITabOrderValidator.apply_suggestions.  A suggestion is a record        *)
(* [type, elements, new_order, value]; an element identifier is            *)
(* <<name, "#", id>> or <<name>>.  NoOrder and NoValue stand for a missing *)
(* key.  The documents hold identifiers on leaves only, so the parent of a *)
(* suggested element is never a suggested element itself.                  *)

NoValue == NoneStr

\* soup.find(id=elem_id.split("#")[-1]) if "#" in elem_id else None
SuggestedElement(sp, elem_id) ==
    IF Len(elem_id) = 3 /\ elem_id[2] = "#" THEN FindById(sp, elem_id[3]) ELSE 0

\* The loop that collects element_tags: the elements found, in order.
RECURSIVE SuggestedTags(_, _)
SuggestedTags(sp, elements) ==
    IF elements = <<>> THEN <<>>
    ELSE (IF SuggestedElement(sp, elements[1]) # 0
          THEN <<SuggestedElement(sp, elements[1])>> ELSE <<>>)
         \o SuggestedTags(sp, Tail(elements))

\* The element is in the contents of some parent.
Attached(sp, element) ==
    \E p \in DOMAIN sp.contents : \E k \in 1..Len(sp.contents[p]) : sp.contents[p][k] = element

\* Tag.index(element), by identity and counted from 0.
IdentityIndex(contents, element) ==
    (CHOOSE k \in 1..Len(contents) : contents[k] = element) - 1

\* Tag.insert(position, element) of bs4: the position is cut to the length
\* of the contents; an element that is in the tree is moved, and when it
\* moves down among its own siblings the position drops by one.
InsertPosition(sp, parent, position, element) ==
    IF /\ Attached(sp, element)
       /\ Parent(sp, element) = parent
       /\ IdentityIndex(sp.contents[parent], element) < Min2(position, Len(sp.contents[parent]))
    THEN Min2(position, Len(sp.contents[parent])) - 1
    ELSE Min2(position, Len(sp.contents[parent]))

TagInsert(sp, parent, position, element) ==
    [Extract(sp, element) EXCEPT !.contents[parent] =
        InsertAt(@, InsertPosition(sp, parent, position, element), element)]

\* element_tags[idx] of Python: a negative idx counts from the end.
PyItem(list, idx) == IF idx >= 0 THEN list[idx + 1] ELSE list[Len(list) + idx + 1]

\* for idx in new_order: if idx < len(element_tags): insert, position += 1.
\* An idx below -len(element_tags) raises IndexError.
RECURSIVE InsertSuggested(_, _, _, _, _)
InsertSuggested(state, parent, position, element_tags, new_order) ==
    IF new_order = <<>> \/ state.raised THEN state
    ELSE IF new_order[1] >= Len(element_tags)
    THEN InsertSuggested(state, parent, position, element_tags, Tail(new_order))
    ELSE IF new_order[1] < 0 - Len(element_tags)
    THEN [state EXCEPT !.raised = TRUE]
    ELSE InsertSuggested(
            [state EXCEPT !.soup = TagInsert(@, parent, position,
                                             PyItem(element_tags, new_order[1]))],
            parent, position + 1, element_tags, Tail(new_order))

AiReorder(suggestion) ==
    [type |-> "ai_reorder", elements |-> suggestion.elements, value |-> NoValue]

\* The branch "reorder" once element_tags holds one element per index.
ReorderSuggested(sp, suggestion, element_tags, parent) ==
    InsertSuggested([soup |-> ExtractAll(sp, element_tags),
                     change |-> <<AiReorder(suggestion)>>, raised |-> FALSE],
                    parent, ChildIndex(sp, parent, element_tags[1]),
                    element_tags, suggestion.new_order)

\* element["tabindex"] = value for every element found
RECURSIVE AddTabindexTo(_, _, _)
AddTabindexTo(sp, elements, value) ==
    IF elements = <<>> THEN sp
    ELSE AddTabindexTo(IF SuggestedElement(sp, elements[1]) # 0
                       THEN SetTabindex(sp, SuggestedElement(sp, elements[1]), value)
                       ELSE sp,
                       Tail(elements), value)

\* suggestion.get("value", "0")
SuggestedValue(suggestion) == IF suggestion.value = NoValue THEN Str_0 ELSE suggestion.value

\* _apply_single_suggestion: the document after it, the change it returns
\* (<<>> for None) and whether it raised.
_apply_single_suggestion(sp, suggestion) ==
    CASE suggestion.type = "reorder" ->
            IF /\ suggestion.new_order # <<>>
               /\ Len(suggestion.new_order) = Len(suggestion.elements)
               /\ SuggestedTags(sp, suggestion.elements) # <<>>
               /\ Len(SuggestedTags(sp, suggestion.elements)) = Len(suggestion.new_order)
            THEN ReorderSuggested(sp, suggestion, SuggestedTags(sp, suggestion.elements),
                                  Parent(sp, SuggestedTags(sp, suggestion.elements)[1]))
            ELSE [soup |-> sp, change |-> <<>>, raised |-> FALSE]
      [] suggestion.type = "add_tabindex" ->
            [soup |-> AddTabindexTo(sp, suggestion.elements, SuggestedValue(suggestion)),
             change |-> <<[type |-> "ai_tabindex_added", elements |-> suggestion.elements,
                           value |-> SuggestedValue(suggestion)]>>,
             raised |-> FALSE]
      [] suggestion.type = "remove_tabindex" ->
            [soup |-> AddTabindexTo(sp, suggestion.elements, NoneStr),
             change |-> <<[type |-> "ai_tabindex_removed", elements |-> suggestion.elements,
                           value |-> NoValue]>>,
             raised |-> FALSE]
      [] OTHER -> [soup |-> sp, change |-> <<>>, raised |-> FALSE]

\* apply_suggestions: a suggestion that raises leaves what it did to the
\* document and adds no change; the loop goes on.
ApplyOne(state, outcome) ==
    [soup |-> outcome.soup,
     changes |-> IF outcome.raised THEN state.changes ELSE state.changes \o outcome.change]

RECURSIVE ApplyFrom(_, _)
ApplyFrom(state, suggestions) ==
    IF suggestions = <<>> THEN state
    ELSE ApplyFrom(ApplyOne(state, _apply_single_suggestion(state.soup, suggestions[1])),
                   Tail(suggestions))

apply_suggestions(sp, suggestions) == ApplyFrom([soup |-> sp, changes |-> <<>>], suggestions)

----------------------------------------------------------------------------
(* RemediationManager.remediate_tab_order_issues.  The remediator it       *)
(* builds is the TabOrderRemediation above, on the variables html_content, *)
(* soup, issues, changes and pc; `options` is the manager's options, which *)
(* the remediator is given too.  Confidence is in hundredths; <<>> is a    *)
(* confidence of None (null in the answer of the model).                   *)

Str_main_id == <<"button", "#", Str_main>>
Str_x_id    == <<"a", "#", Str_x>>

\* A skip link, its target with a positive tabindex, a link and a span
\* with a needless tabindex, in two <div>.
ManagerLeaves ==
    { Node("a", NoneStr, <<>>, None, {}, Str_hash_main, Str_Skip, NoneStr, <<10, 0, 5, 5>>),
      Node("button", Str_main, <<>>, None, {}, NoneStr, Str_Go, Str_3, <<0, 15, 5, 5>>),
      Node("a", Str_x, <<>>, None, {}, Str_path, Str_Go, NoneStr, <<0, 30, 5, 5>>),
      Node("span", NoneStr, <<"c">>, None, {}, NoneStr, Str_Go, Str_0, <<>>) }

ManagerDocs ==
    UNION { { TreeSoup(leaves, k) : k \in {1, Len(leaves)} } :
                leaves \in { q \in SeqsUpTo(ManagerLeaves, MaxElements) : Len(q) >= 2 } }

ManagerOptions ==
    { EmptyDict, [ai_validate_tab_order |-> FALSE], [optimize_tab_order |-> FALSE],
      [ai_confidence_threshold |-> 90] }

\* options.get(key, default)
OptionOr(opts, key, default) == IF key \in DOMAIN opts THEN opts[key] ELSE default

Suggestion(type, elements, new_order, value) ==
    [type |-> type, elements |-> elements, new_order |-> new_order, value |-> value]

\* What validate_and_enhance may return: the answer of the model, or its
\* own defaults when the call fails (0.5) or the answer is no JSON (0.6).
ManagerSuggestions ==
    { <<>>,
      << Suggestion("add_tabindex", <<Str_x_id>>, <<>>, Str_0) >>,
      << Suggestion("reorder", <<Str_main_id, Str_x_id>>, <<1, 0>>, NoValue) >> }

ValidationResults ==
    { [confidence |-> <<50>>, suggested_changes |-> <<>>],
      [confidence |-> <<60>>, suggested_changes |-> <<>>] }
    \cup
    { [confidence |-> c, suggested_changes |-> s] :
        c \in { <<>>, <<79>>, <<80>>, <<90>>, <<100>> }, s \in ManagerSuggestions }

\* RemediationManager(soup, options) and the issues handed to
\* remediate_tab_order_issues: those of an audit, none, a lone mismatch
\* issue, or a caller's record before those of an audit.
ManagerInit ==
    /\ msoup \in ManagerDocs
    /\ options \in ManagerOptions
    /\ bedrock_client \in {None, "client"}
    /\ \E choice \in {"audit", "none", "mismatch", "given"} :
          tab_order_issues =
              IF choice = "given" THEN <<GivenIssues[4]>> \o IssueList(msoup, "audit")
              ELSE IssueList(msoup, choice)
    /\ given_issues = <<>> /\ results = <<>>
    /\ validation_result = <<>> /\ tab_order_result = <<>>
    /\ mpc = "called"
    /\ html_content = <<>> /\ soup = <<>> /\ issues = <<>>
    /\ changes = <<>> /\ pc = "idle" /\ returned = <<>>
    /\ sdoc = <<>> /\ parsed_rules = <<>>
    /\ StyleIdle /\ ContrastIdle /\ SortIdle

EmptyResult ==
    [issues_processed |-> 0, issues_remediated |-> 0, changes |-> <<>>,
     ai_validation_performed |-> FALSE]

\* Lines 390-408: nothing to do, or the remediator is built on str(soup).
StartAlgorithmic ==
    /\ mpc = "called"
    /\ IF tab_order_issues = <<>>
       THEN /\ tab_order_result' = EmptyResult
            /\ mpc' = "returned"
            /\ UNCHANGED <<html_content, soup, issues, changes, pc>>
       ELSE /\ html_content' = msoup
            /\ soup' = msoup
            /\ issues' = tab_order_issues
            /\ changes' = <<>>
            /\ pc' = "step1"
            /\ mpc' = "phase1"
            /\ UNCHANGED tab_order_result
    /\ UNCHANGED <<svars, cvars, pvars, options, returned, msoup, bedrock_client,
                   given_issues, tab_order_issues, validation_result, results>>

\* Lines 409-422: remediate() has returned; its document replaces the
\* contents of the manager's soup.
ReplaceSoup ==
    /\ mpc = "phase1"
    /\ pc = "done"
    /\ msoup' = soup
    /\ tab_order_result' =
          [issues_processed |-> Len(tab_order_issues), issues_remediated |-> Len(changes),
           changes |-> changes, ai_validation_performed |-> FALSE, ai_confidence |-> <<>>,
           ai_suggestions_applied |-> FALSE, ai_validation_error |-> FALSE]
    /\ mpc' = "phase2"
    /\ UNCHANGED <<svars, cvars, pvars, tvars, bedrock_client, given_issues,
                   tab_order_issues, validation_result, results>>

\* remediate() raised: the exception leaves remediate_tab_order_issues.
PropagateError ==
    /\ mpc = "phase1"
    /\ pc = "raised"
    /\ mpc' = "raised"
    /\ UNCHANGED <<svars, cvars, pvars, tvars, msoup, bedrock_client, given_issues,
                   tab_order_issues, validation_result, tab_order_result, results>>

\* Line 425 and 428
AiEnabled(opts) ==
    OptionOr(opts, "optimize_tab_order", TRUE) /\ OptionOr(opts, "ai_validate_tab_order", TRUE)

\* Lines 424-452 and 491-494: validation, when it is enabled and there is
\* a client.
ValidateAndEnhance ==
    /\ mpc = "phase2"
    /\ IF AiEnabled(options) /\ bedrock_client # None
       THEN \E answer \in ValidationResults :
               /\ validation_result' = answer
               /\ tab_order_result' = [tab_order_result EXCEPT
                                          !.ai_validation_performed = TRUE,
                                          !.ai_confidence = answer.confidence]
               /\ mpc' = "validated"
       ELSE /\ mpc' = "returned"
            /\ UNCHANGED <<validation_result, tab_order_result>>
    /\ UNCHANGED <<svars, cvars, pvars, tvars, msoup, bedrock_client, given_issues,
                   tab_order_issues, results>>

\* Lines 455-459: there are suggestions and the confidence reaches the
\* threshold.
ConfidentEnoughIgnoringThreshold(validation, threshold) ==
    validation.suggested_changes # <<>>

ConfidentEnough(validation, threshold) ==
    validation.suggested_changes # <<>> /\ validation.confidence[1] >= threshold

\* Lines 454-490.  A confidence of None raises TypeError, in the comparison
\* or in the message of the branch without suggestions.
ApplyAiSuggestions ==
    /\ mpc = "validated"
    /\ IF validation_result.confidence = <<>>
       THEN /\ tab_order_result' = [tab_order_result EXCEPT !.ai_validation_error = TRUE]
            /\ UNCHANGED msoup
       ELSE IF ConfidentEnough(validation_result,
                               OptionOr(options, "ai_confidence_threshold", 80))
       THEN /\ msoup' = apply_suggestions(soup, validation_result.suggested_changes).soup
            /\ tab_order_result' =
                  [tab_order_result EXCEPT
                     !.changes = @ \o apply_suggestions(
                                        soup, validation_result.suggested_changes).changes,
                     !.issues_remediated =
                         Len(tab_order_result.changes) + Len(apply_suggestions(
                                        soup, validation_result.suggested_changes).changes),
                     !.ai_suggestions_applied = TRUE]
       ELSE UNCHANGED <<msoup, tab_order_result>>
    /\ mpc' = "returned"
    /\ UNCHANGED <<svars, cvars, pvars, tvars, bedrock_client, given_issues,
                   tab_order_issues, validation_result, results>>

ManagerNext ==
    \/ StartAlgorithmic
    \/ TabNext
    \/ ReplaceSoup
    \/ PropagateError
    \/ ValidateAndEnhance
    \/ ApplyAiSuggestions

ManagerSpec == ManagerInit /\ [][ManagerNext]_vars

----------------------------------------------------------------------------
(* Claims about remediate_tab_order_issues.                                *)

\* options.get("ai_confidence_threshold", 0.8), in hundredths
ConfiguredConfidence == OptionOr(options, "ai_confidence_threshold", 80)

\* What holds of the result once remediate_tab_order_issues has returned.
TwoPhaseResult ==
    IF tab_order_issues = <<>>
    THEN /\ tab_order_result.issues_processed = 0
         /\ tab_order_result.issues_remediated = 0
         /\ tab_order_result.changes = <<>>
         /\ ~tab_order_result.ai_validation_performed
    ELSE /\ tab_order_result.ai_suggestions_applied =>
               /\ tab_order_result.ai_validation_performed
               /\ validation_result.suggested_changes # <<>>
               /\ validation_result.confidence # <<>>
               /\ validation_result.confidence[1] >= ConfiguredConfidence
         /\ ~tab_order_result.ai_suggestions_applied =>
               /\ msoup = soup
               /\ tab_order_result.changes = changes
         /\ (~AiEnabled(options) \/ bedrock_client = None) =>
               ~tab_order_result.ai_validation_performed

\* A step that starts the validation finds remediate() ended and its
\* document in the manager's soup; no step on an empty issue list touches
\* the manager's soup.
TwoPhaseStep ==
    /\ (mpc # "validated" /\ mpc' = "validated") => (pc = "done" /\ msoup = soup)
    /\ tab_order_issues = <<>> => msoup' = msoup

\* C21: remediate_tab_order_issues is two-phase: the validation starts only
\* after the algorithmic remediation has ended and its document has
\* replaced the manager's; suggestions are applied only when the validation
\* ran, returned suggestions and a confidence of at least the configured
\* threshold (0.8 by default); otherwise the document and the changes are
\* those of the algorithmic phase; ai_validation_performed is false when
\* the validation is disabled or there is no client; an empty issue list
\* gives zero processed, zero remediated, no changes and an untouched
\* document.
C21_TwoPhase ==
    /\ [](mpc = "returned" => TwoPhaseResult)
    /\ [][TwoPhaseStep]_vars

\* Suggestions were applied after an algorithmic phase that changed the
\* document, and they changed it again.
C21_Witness ==
    /\ mpc = "returned"
    /\ tab_order_issues # <<>>
    /\ tab_order_result.ai_suggestions_applied
    /\ changes # <<>>
    /\ msoup # soup
    /\ soup # html_content

----------------------------------------------------------------------------
(* RemediationManager.remediate_issues.  Every issue carries an id.  The   *)
(* issues of other types are of a type with no remediation strategy, for   *)
(* which remediate_issue returns None and leaves the document alone.       *)

\* The issue with the key "id".
WithId(issue, i) ==
    [k \in DOMAIN issue \cup {"id"} |-> IF k = "id" THEN i ELSE issue[k]]

WithIds(list, from) == [i \in 1..Len(list) |-> WithId(list[i], from + i)]

\* An issue of a type that is in no table of strategies.
OtherIssue == [type |-> "missing-alt-text", severity |-> "major"]

tab_order_issue_types ==
    {"positive-tabindex", "illogical-tab-order", "unnecessary-tabindex-zero",
     "tab-order-mismatch"}

\* severity_levels.get(severity, 1)
severity_levels(severity) ==
    CASE severity = "critical" -> 3
      [] severity = "major"    -> 2
      [] OTHER                 -> 1

\* Lines 522-544: the filters max_issues, issue_types and severity.
CutToMax(list, opts) ==
    IF "max_issues" \in DOMAIN opts
    THEN SubSeq(list, 1, Min2(opts["max_issues"], Len(list))) ELSE list

OfIssueTypes(list, opts) ==
    IF "issue_types" \in DOMAIN opts /\ opts["issue_types"] # {}
    THEN SelectSeq(list, LAMBDA issue : issue.type \in opts["issue_types"]) ELSE list

AboveSeverity(list, opts) ==
    SelectSeq(list, LAMBDA issue :
        severity_levels(issue.severity)
            >= severity_levels(OptionOr(opts, "severity_threshold", "minor")))

Filtered(list, opts) == AboveSeverity(OfIssueTypes(CutToMax(list, opts), opts), opts)

\* Lines 560-565
TabOrderIssuesOf(list) == SelectSeq(list, LAMBDA issue : issue.type \in tab_order_issue_types)
OtherIssuesOf(list) == SelectSeq(list, LAMBDA issue : issue.type \notin tab_order_issue_types)

IssuesOptions ==
    { EmptyDict, [optimize_tab_order |-> FALSE], [max_issues |-> 1],
      [issue_types |-> {"positive-tabindex", "missing-alt-text"}],
      [severity_threshold |-> "major"] }

\* Two leaves, one in each <div>.
IssuesDocs ==
    { TreeSoup(leaves, 1) : leaves \in { q \in SeqsUpTo(ManagerLeaves, 2) : Len(q) = 2 } }

\* RemediationManager(soup, options) and the argument of remediate_issues:
\* the issues of an audit, with an issue of another type or a caller's
\* record before them or with nothing else.
IssuesInit ==
    /\ msoup \in IssuesDocs
    /\ options \in IssuesOptions
    /\ bedrock_client \in {None, "client"}
    /\ \E extra \in {"none", "other", "given"} :
          given_issues =
              WithIds(CASE extra = "none"  -> <<>>
                        [] extra = "other" -> <<OtherIssue>>
                        [] extra = "given" -> <<GivenIssues[4]>>, 0)
              \o WithIds(IssueList(msoup, "audit"), 1)
    /\ tab_order_issues = <<>> /\ results = <<>>
    /\ validation_result = <<>> /\ tab_order_result = <<>>
    /\ mpc = "issues_called"
    /\ html_content = <<>> /\ soup = <<>> /\ issues = <<>>
    /\ changes = <<>> /\ pc = "idle" /\ returned = <<>>
    /\ sdoc = <<>> /\ parsed_rules = <<>>
    /\ StyleIdle /\ ContrastIdle /\ SortIdle

\* Lines 508-571
FilterIssues ==
    /\ mpc = "issues_called"
    /\ results' =
          [issues_processed |-> Len(given_issues), issues_remediated |-> 0,
           issues_failed |-> 0, skipped_issues |-> 0, details |-> <<>>,
           remediated_issues_details |-> <<>>, failed_issues_details |-> <<>>,
           total_changes_applied |-> 0]
    /\ tab_order_issues' = TabOrderIssuesOf(Filtered(given_issues, options))
    /\ mpc' = IF /\ TabOrderIssuesOf(Filtered(given_issues, options)) # <<>>
                 /\ OptionOr(options, "optimize_tab_order", TRUE)
              THEN "called" ELSE "others"
    /\ UNCHANGED <<svars, cvars, pvars, tvars, msoup, bedrock_client, given_issues,
                   validation_result, tab_order_result>>

\* c.get("issue_type"): None without the key.
ChangeIssueType(c) == IF "issue_type" \in DOMAIN c THEN c["issue_type"] ELSE None

\* Lines 586-590
changes_for_issue(result, issue) ==
    SelectSeq(result.changes, LAMBDA c : ChangeIssueType(c) = issue.type)

\* Lines 592-621
TabOrderDetail(result, issue) ==
    [id |-> issue.id, type |-> issue.type, severity |-> issue.severity,
     remediated |-> Len(changes_for_issue(result, issue)) > 0,
     remediation_status |-> IF changes_for_issue(result, issue) # <<>>
                            THEN "remediated" ELSE "failed",
     changes_applied |-> Len(changes_for_issue(result, issue))]

\* Lines 582-651: the loop over the tab-order issues.
RECURSIVE TabOrderDetailsFrom(_, _, _)
TabOrderDetailsFrom(res, result, list) ==
    IF list = <<>> THEN res
    ELSE TabOrderDetailsFrom(
            IF changes_for_issue(result, list[1]) # <<>>
            THEN [res EXCEPT !.details = Append(@, TabOrderDetail(result, list[1])),
                             !.remediated_issues_details =
                                 Append(@, TabOrderDetail(result, list[1]))]
            ELSE [res EXCEPT !.details = Append(@, TabOrderDetail(result, list[1])),
                             !.failed_issues_details =
                                 Append(@, TabOrderDetail(result, list[1])),
                             !.issues_failed = @ + 1],
            result, Tail(list))

\* Lines 573-651: remediate_tab_order_issues has returned.
RecordTabOrderDetails ==
    /\ mpc = "returned"
    /\ given_issues # <<>>
    /\ results' = TabOrderDetailsFrom(
                     [results EXCEPT
                        !.issues_remediated = @ + tab_order_result.issues_remediated,
                        !.total_changes_applied = @ + Len(tab_order_result.changes)],
                     tab_order_result, tab_order_issues)
    /\ mpc' = "others"
    /\ UNCHANGED <<svars, cvars, pvars, tvars, msoup, bedrock_client, given_issues,
                   tab_order_issues, validation_result, tab_order_result>>

FailedDetail(issue) ==
    [id |-> issue.id, type |-> issue.type, severity |-> issue.severity,
     remediated |-> FALSE, remediation_status |-> "failed", changes_applied |-> 0]

\* Lines 653-679: remediate_tab_order_issues raised.
RecordTabOrderFailure ==
    /\ mpc = "raised"
    /\ given_issues # <<>>
    /\ results' =
          [results EXCEPT
             !.details = @ \o [i \in 1..Len(tab_order_issues) |->
                                  FailedDetail(tab_order_issues[i])],
             !.failed_issues_details = @ \o [i \in 1..Len(tab_order_issues) |->
                                                FailedDetail(tab_order_issues[i])],
             !.issues_failed = @ + Len(tab_order_issues)]
    /\ mpc' = "others"
    /\ UNCHANGED <<svars, cvars, pvars, tvars, msoup, bedrock_client, given_issues,
                   tab_order_issues, validation_result, tab_order_result>>

\* Lines 681-884 for an issue whose type has no strategy: remediate_issue
\* returns None, the issue is counted as skipped.
RECURSIVE OtherDetailsFrom(_, _)
OtherDetailsFrom(res, list) ==
    IF list = <<>> THEN res
    ELSE OtherDetailsFrom(
            [res EXCEPT !.skipped_issues = @ + 1,
                        !.failed_issues_details = Append(@, FailedDetail(list[1])),
                        !.details = Append(@, FailedDetail(list[1]))],
            Tail(list))

\* Lines 681-903: the other issues one by one, then the return.
ProcessOtherIssues ==
    /\ mpc = "others"
    /\ results' = OtherDetailsFrom(results, OtherIssuesOf(Filtered(given_issues, options)))
    /\ mpc' = "issues_returned"
    /\ UNCHANGED <<svars, cvars, pvars, tvars, msoup, bedrock_client, given_issues,
                   tab_order_issues, validation_result, tab_order_result>>

IssuesNext ==
    \/ FilterIssues
    \/ ManagerNext
    \/ RecordTabOrderDetails
    \/ RecordTabOrderFailure
    \/ ProcessOtherIssues

IssuesSpec == IssuesInit /\ [][IssuesNext]_vars

----------------------------------------------------------------------------
(* Claims about remediate_issues.                                          *)

DetailsOf(issue) == { i \in DOMAIN results.details : results.details[i].id = issue.id }

\* C22: remediate_issues returns exactly one entry in `details` for every
\* issue that passes the filters max_issues, issue_types and severity, the
\* tab-order issues included, with the tab-order optimisation enabled or
\* disabled and whether or not the batch remediation raises, and
\* issues_processed is the number of issues passed in.
C22_OneDetailPerIssue ==
    mpc = "issues_returned" =>
        /\ \A i \in DOMAIN Filtered(given_issues, options) :
              Cardinality(DetailsOf(Filtered(given_issues, options)[i])) = 1
        /\ Len(results.details) = Len(Filtered(given_issues, options))
        /\ results.issues_processed = Len(given_issues)

\* The type of issue a change of the algorithmic remediation answers.
IssueTypeOfChange(c) ==
    CASE c.type = "positive_tabindex_removed"         -> "positive-tabindex"
      [] c.type = "unnecessary_tabindex_zero_removed" -> "unnecessary-tabindex-zero"
      [] c.type = "dom_reordered"                     -> "tab-order-mismatch"
      [] OTHER                                        -> None

\* The batch remediation applied a change for an issue of this type.
AppliedFor(type) ==
    \E i \in DOMAIN tab_order_result.changes :
        IssueTypeOfChange(tab_order_result.changes[i]) = type

\* C30: in the result of remediate_issues a tab-order issue for which the
\* batch remediation applied a change is reported with remediated = true
\* and the status "remediated" and is listed in remediated_issues_details;
\* it is reported as failed only when no change was applied for it.
C30_AppliedIsRemediated ==
    (mpc = "issues_returned" /\ pc = "done") =>
        \A i \in DOMAIN results.details :
            results.details[i].type \in tab_order_issue_types =>
                /\ AppliedFor(results.details[i].type) =>
                      /\ results.details[i].remediated
                      /\ results.details[i].remediation_status = "remediated"
                      /\ \E k \in DOMAIN results.remediated_issues_details :
                            results.remediated_issues_details[k].id = results.details[i].id
                /\ results.details[i].remediation_status = "failed" =>
                      ~AppliedFor(results.details[i].type)

----------------------------------------------------------------------------
(* Claims about the order of the steps and of the change log.              *)

\* The step that logs changes of this type.
StepOfChange(type) ==
    CASE type = "positive_tabindex_removed"         -> 1
      [] type = "unnecessary_tabindex_zero_removed" -> 2
      [] type = "dom_reordered"                     -> 3
      [] type = "tabindex_negative_added"           -> 4

\* The log is sorted by step.
LogInStepOrder ==
    \A i, j \in DOMAIN changes :
        i < j => StepOfChange(changes[i].type) <= StepOfChange(changes[j].type)

\* A step of remediate() moves to the next step or raises, and leaves the
\* entries logged so far where and as they are.
StepInOrder ==
    /\ pc' # pc =>
          <<pc, pc'>> \in { <<"step1", "step2">>, <<"step2", "step3">>, <<"step3", "step4">>,
                            <<"step4", "done">>, <<"step2", "raised">>, <<"step3", "raised">> }
    /\ Len(changes') >= Len(changes)
    /\ SubSeq(changes', 1, Len(changes)) = changes

\* C23: remediate() runs strip-positive-tabindex, strip-unneeded-zero,
\* reorder and patch-skip-targets in this order, each at most once per
\* call; the change log is append-only and sorted by step: the entries
\* positive_tabindex_removed come before the entries
\* unnecessary_tabindex_zero_removed, those before the entries
\* dom_reordered, those before the entries tabindex_negative_added; no
\* entry is removed or rewritten; an empty log at the return means the
\* document is the input.
C23_OrderedAppendOnlyLog ==
    /\ [](LogInStepOrder /\ ((pc = "done" /\ changes = <<>>) => soup = html_content))
    /\ [][StepInOrder]_vars

\* A call has returned a log with entries of two steps.
C23_Witness ==
    /\ pc = "done"
    /\ \E i, j \in DOMAIN changes :
          StepOfChange(changes[i].type) < StepOfChange(changes[j].type)

----------------------------------------------------------------------------
(* Claims about the mismatch detection of TabOrderCheck.  dom_order is the *)
(* list _check_tab_order_vs_visual_order passes: the interactive elements  *)
(* with position data, in the order of their dom_index.                    *)

AuditDomOrder == _get_elements_with_position(soup, _get_interactive_elements(soup), 0)
AuditVisualOrder == Check_sort_by_visual_position(AuditDomOrder)
AuditMismatches == _find_order_mismatches(AuditVisualOrder, AuditDomOrder, 0)

\* The place of an element in a list of element data.
PlaceIn(list, element) == CHOOSE k \in 1..Len(list) : list[k].element = element

\* Element i of dom_order, counted from 0, comes after element j in the
\* visual order.
VisuallyAfter(i, j) ==
    PlaceIn(AuditVisualOrder, AuditDomOrder[i + 1].element)
        > PlaceIn(AuditVisualOrder, AuditDomOrder[j + 1].element)

ReportedPairs ==
    { <<AuditMismatches[k].current_element.dom_index, AuditMismatches[k].next_element.dom_index>> :
        k \in DOMAIN AuditMismatches }

MismatchIssues == SelectSeq(issues, LAMBDA issue : issue.type = "tab-order-mismatch")

\* C24: _find_order_mismatches reports exactly the pairs (i, i+1) of
\* neighbours in dom_order whose second element has the smaller visual
\* index, and no pair of elements that are not neighbours; its result is
\* empty if and only if dom_order and the visual order are the same
\* sequence; the check reports at most one tab-order-mismatch issue per
\* document and none when fewer than two interactive elements have a
\* bounding box.
C24_AdjacentInversionsOnly ==
    pc = "checked" =>
        /\ ReportedPairs =
              { <<i, i + 1>> : i \in { k \in 0..(Len(AuditDomOrder) - 2) : VisuallyAfter(k, k + 1) } }
        /\ Len(AuditMismatches) = Cardinality(ReportedPairs)
        /\ AuditMismatches = <<>> <=> Elements(AuditDomOrder) = Elements(AuditVisualOrder)
        /\ Len(MismatchIssues) <= 1
        /\ Len(MismatchIssues) = 1 <=> AuditMismatches # <<>>
        /\ \A k \in DOMAIN MismatchIssues :
              MismatchIssues[k].context.mismatches_count = Len(AuditMismatches)
        /\ Len(AuditDomOrder) < 2 => MismatchIssues = <<>>

\* Three positioned elements: two that are not neighbours stand the other
\* way round in the visual order, some neighbours do too and are reported,
\* other neighbours do not.
C24_Witness ==
    /\ pc = "checked"
    /\ Len(AuditDomOrder) >= 3
    /\ AuditMismatches # <<>>
    /\ \E i \in 0..(Len(AuditDomOrder) - 3) :
          VisuallyAfter(i, i + 2) /\ <<i, i + 2>> \notin ReportedPairs
    /\ \E i \in 0..(Len(AuditDomOrder) - 2) : ~VisuallyAfter(i, i + 1)

----------------------------------------------------------------------------
(* TabOrderCheck on documents whose position data may be malformed: links  *)
(* and a button in one <div>, with a bounding box of four numbers, of      *)
(* three numbers, with a first part that is no number, or with none.       *)

\* The element with a data-bda-bbox whose first part float() rejects.
NonNumeric(node) == [node EXCEPT !.bbox[1] = <<>>]

RowLeaves ==
    { Node("a", NoneStr, <<>>, None, {}, Str_path, Str_Go, NoneStr, <<10, 0, 5, 5>>),
      Node("a", NoneStr, <<>>, None, {}, Str_path, Str_Go, NoneStr, <<0, 30, 5, 12>>),
      Node("button", NoneStr, <<>>, None, {}, NoneStr, Str_Go, NoneStr, <<0, 15, 5, 5>>),
      Node("a", NoneStr, <<>>, None, {}, Str_path, Str_Go, NoneStr, <<0, 0, 5>>),
      NonNumeric(Node("a", NoneStr, <<>>, None, {}, Str_path, Str_Go, NoneStr, <<0, 45, 5, 5>>)),
      Node("a", NoneStr, <<>>, None, {}, Str_path, Str_Go, NoneStr, <<>>) }

RowDocs ==
    { TreeSoup(leaves, Len(leaves)) : leaves \in SeqsUpTo(RowLeaves, MaxLeaves) \ { <<>> } }

RowsInit ==
    /\ html_content \in RowDocs
    /\ soup = html_content
    /\ issues = <<>>
    /\ options = <<>>
    /\ changes = <<>>
    /\ returned = <<>>
    /\ pc = "check"
    /\ sdoc = <<>> /\ parsed_rules = <<>>
    /\ StyleIdle /\ ContrastIdle /\ SortIdle /\ ManagerIdle

RowsSpec == RowsInit /\ [][AuditNext]_vars

\* The rows the check groups the positioned elements into.
AuditRows == Check_group_into_rows(AuditDomOrder, CheckRowThreshold)

\* The places <<row, member>> at which an element stands in the rows.
PlacesInRows(rows, n) ==
    { <<r, k>> \in (DOMAIN rows) \X (1..Len(soup.attrs)) :
        k <= Len(rows[r].elements) /\ rows[r].elements[k].element = n }

\* data-bda-bbox holds four parts and float() reads them all.
Parseable(node) == Len(node.bbox) = 4 /\ \A k \in 1..4 : node.bbox[k] # <<>>

MemberY(row) == { row.elements[k].bbox.y : k \in DOMAIN row.elements }
MemberBottom(row) ==
    { row.elements[k].bbox.y + row.elements[k].bbox.height : k \in DOMAIN row.elements }

\* The element is in one of the lists of the order analysis.
InOrderAnalysis(dom_order, visual_order, n) ==
    \/ \E k \in DOMAIN visual_order : visual_order[k].element = n
    \/ \E k \in DOMAIN dom_order : dom_order[k].element = n

RowsPartition(rows, interactive_elements, dom_order, visual_order) ==
    /\ \A k \in DOMAIN interactive_elements :
          IF Parseable(soup.attrs[interactive_elements[k]])
          THEN Cardinality(PlacesInRows(rows, interactive_elements[k])) = 1
          ELSE /\ PlacesInRows(rows, interactive_elements[k]) = {}
               /\ ~InOrderAnalysis(dom_order, visual_order, interactive_elements[k])
    /\ \A r \in DOMAIN rows :
          /\ rows[r].elements # <<>>
          /\ rows[r].y_min \in MemberY(rows[r])
          /\ \A y \in MemberY(rows[r]) : rows[r].y_min <= y
          /\ rows[r].y_max \in MemberBottom(rows[r])
          /\ \A b \in MemberBottom(rows[r]) : rows[r].y_max >= b

FirstIsNotTopmost(rows) ==
    /\ Len(rows) >= 2
    /\ \E r \in DOMAIN rows :
          Len(rows[r].elements) >= 2 /\ rows[r].elements[1].bbox.y # rows[r].y_min

----------------------------------------------------------------------------
(* StyleResolver._element_matches_selector on the text of a selector.      *)
(* The operator _element_matches_selector above decides the four shapes    *)
(* the resolver recognises; here the selector is the text the stylesheet   *)
(* holds, the tests are the method's regular expressions and prefix tests  *)
(* in the method's order, and the last branch asks the document.           *)

IsLetter(c) == \E i \in 1..26 : LowerLetters[i] = LowerChar(c)
\* A character of [\w-].
IsWordOrHyphen(c) == IsLetter(c) \/ IsDigit(c) \/ c = "_" \/ c = "-"

\* re.match(r'^[a-z][\w-]*$', text, re.IGNORECASE)
IsSimpleName(text) ==
    /\ text # <<>>
    /\ IsLetter(text[1])
    /\ \A k \in 2..Len(text) : IsWordOrHyphen(text[k])

\* The position of the dot when the text matches
\* r'^([a-z][\w-]*)\.([a-z][\w-]*)$', 0 when it does not.
ElementClassDot(text) ==
    IF \E d \in 1..Len(text) :
          /\ text[d] = "."
          /\ IsSimpleName(SubSeq(text, 1, d - 1))
          /\ IsSimpleName(SubSeq(text, d + 1, Len(text)))
    THEN CHOOSE d \in 1..Len(text) :
          /\ text[d] = "."
          /\ IsSimpleName(SubSeq(text, 1, d - 1))
          /\ IsSimpleName(SubSeq(text, d + 1, Len(text)))
    ELSE 0

\* What the document's query engine makes of a selector: a sequence of
\* compound selectors, each with the combinator that ties it to the one
\* before, or a rejection.
Compound(elem, ident, classes) == [elem |-> elem, id |-> ident, classes |-> classes]
Part(combinator, compound) == [combinator |-> combinator, compound |-> compound]
Query(text, parts) == [text |-> text, valid |-> TRUE, parts |-> parts]
Rejected(text) == [text |-> text, valid |-> FALSE, parts |-> <<>>]

Txt_div == <<"d", "i", "v">>
Txt_p == <<"p">>
Txt_c == <<"c">>
Txt_t == <<"t">>
Txt_m == <<"m">>

\* The selectors of the stylesheets: p, #m, .c, p.t, .c .t, .c.t, #m p,
\* div > p, div p and the unterminated p[ that the engine rejects.
Selectors ==
    << Query(<<"p">>, <<Part("", Compound(Txt_p, NoneStr, {}))>>),
       Query(<<"#", "m">>, <<Part("", Compound(NoneStr, Txt_m, {}))>>),
       Query(<<".", "c">>, <<Part("", Compound(NoneStr, NoneStr, {Txt_c}))>>),
       Query(<<"p", ".", "t">>, <<Part("", Compound(Txt_p, NoneStr, {Txt_t}))>>),
       Query(<<".", "c", " ", ".", "t">>,
             <<Part("", Compound(NoneStr, NoneStr, {Txt_c})),
               Part(" ", Compound(NoneStr, NoneStr, {Txt_t}))>>),
       Query(<<".", "c", ".", "t">>, <<Part("", Compound(NoneStr, NoneStr, {Txt_c, Txt_t}))>>),
       Query(<<"#", "m", " ", "p">>,
             <<Part("", Compound(NoneStr, Txt_m, {})),
               Part(" ", Compound(Txt_p, NoneStr, {}))>>),
       Query(<<"d", "i", "v", " ", ">", " ", "p">>,
             <<Part("", Compound(Txt_div, NoneStr, {})),
               Part(">", Compound(Txt_p, NoneStr, {}))>>),
       Query(<<"d", "i", "v", " ", "p">>,
             <<Part("", Compound(Txt_div, NoneStr, {})),
               Part(" ", Compound(Txt_p, NoneStr, {}))>>),
       Rejected(<<"p", "[">>) >>

\* The documents: a <div> that holds a <p>, and a second <p> beside the
\* <div> or inside it.
SelectorDocs ==
    { << [name |-> Txt_div, id |-> ident, class |-> c1, parent |-> 0],
         [name |-> Txt_p, id |-> NoneStr, class |-> c2, parent |-> 1],
         [name |-> Txt_p, id |-> NoneStr, class |-> c3, parent |-> up] >> :
        ident \in {NoneStr, Txt_m}, c1 \in {{}, {Txt_c}},
        c2 \in {{}, {Txt_t}, {Txt_c, Txt_t}}, c3 \in {{}, {Txt_t}, {Txt_c, Txt_t}},
        up \in {0, 1} }

\* An element's markup, which is what Tag.__eq__ compares.
RECURSIVE SelectorMarkup(_, _)
SelectorMarkup(doc, n) ==
    LET kids == SelectSeq([i \in 1..Len(doc) |-> i], LAMBDA i : doc[i].parent = n)
    IN [name |-> doc[n].name, id |-> doc[n].id, class |-> doc[n].class,
        contents |-> [k \in 1..Len(kids) |-> SelectorMarkup(doc, kids[k])]]

RECURSIVE AncestorsOf(_, _)
AncestorsOf(doc, n) ==
    IF doc[n].parent = 0 THEN {} ELSE {doc[n].parent} \cup AncestorsOf(doc, doc[n].parent)

MatchesCompound(node, compound) ==
    /\ compound.elem = NoneStr \/ node.name = compound.elem
    /\ compound.id = NoneStr \/ node.id = compound.id
    /\ compound.classes \subseteq node.class

\* Whether element n is selected by the first k parts of a selector.
RECURSIVE MatchesParts(_, _, _, _)
MatchesParts(doc, n, parts, k) ==
    /\ MatchesCompound(doc[n], parts[k].compound)
    /\ \/ k = 1
       \/ /\ k > 1
          /\ parts[k].combinator = ">"
          /\ doc[n].parent # 0
          /\ MatchesParts(doc, doc[n].parent, parts, k - 1)
       \/ /\ k > 1
          /\ parts[k].combinator = " "
          /\ \E a \in AncestorsOf(doc, n) : MatchesParts(doc, a, parts, k - 1)

\* soup.select(selector): the elements the document query returns.
SoupSelect(doc, query) ==
    { n \in DOMAIN doc : MatchesParts(doc, n, query.parts, Len(query.parts)) }

\* _element_matches_selector(element, selector) on the selector's text.
MatchesSelectorText(doc, e, query) ==
    LET selector == Strip(query.text)
        rest == SubSeq(selector, 2, Len(selector))
        dot == ElementClassDot(selector)
    IN CASE IsSimpleName(selector) -> doc[e].name = selector
         [] StartsWith(selector, <<"#">>) ->
               (IF doc[e].id = NoneStr THEN <<>> ELSE doc[e].id) = rest
         [] StartsWith(selector, <<".">>) -> rest \in doc[e].class
         [] dot # 0 ->
               /\ doc[e].name = SubSeq(selector, 1, dot - 1)
               /\ SubSeq(selector, dot + 1, Len(selector)) \in doc[e].class
         [] OTHER ->
               IF query.valid
               THEN \E m \in SoupSelect(doc, query) :
                       SelectorMarkup(doc, m) = SelectorMarkup(doc, e)
               ELSE FALSE

SelectorInit ==
    /\ sdoc \in SelectorDocs
    /\ parsed_rules = <<>>
    /\ squery = <<>>
    /\ sresult = NoneStr
    /\ ContrastIdle /\ TabIdle /\ SortIdle /\ ManagerIdle

\* One call of _element_matches_selector(element, selector).
MatchSelector ==
    /\ squery = <<>>
    /\ \E e \in DOMAIN sdoc, k \in DOMAIN Selectors :
          /\ squery' = <<"_element_matches_selector", e, Selectors[k]>>
          /\ sresult' = <<MatchesSelectorText(sdoc, e, Selectors[k])>>
    /\ UNCHANGED <<mvars, sdoc, parsed_rules, cvars, tvars, pvars>>

SelectorNext == MatchSelector

SelectorSpec == SelectorInit /\ [][SelectorNext]_vars

\* The four shapes the method decides itself.
NativeShape(text) ==
    \/ IsSimpleName(text)
    \/ text[1] \in {"#", "."} /\ IsSimpleName(SubSeq(text, 2, Len(text)))
    \/ ElementClassDot(text) # 0

\* C26: a selector outside the four native shapes is decided by the
\* document query: the element matches exactly when the query returns it,
\* and a selector the query engine rejects matches nothing.
C26_CompoundSelectorsFollowQuery ==
    (squery # <<>> /\ squery[1] = "_element_matches_selector"
        /\ ~NativeShape(squery[3].text))
    => sresult = << /\ squery[3].valid
                    /\ squery[2] \in SoupSelect(sdoc, squery[3]) >>

----------------------------------------------------------------------------
(* Claims about the rows of the grouping.                                  *)

\* Every member of every row starts within the threshold of the row's
\* y_min.
MembersWithin(rows, threshold) ==
    \A r \in DOMAIN rows : \A k \in DOMAIN rows[r].elements :
        Abs(rows[r].elements[k].bbox.y - rows[r].y_min) <= threshold

\* The least y of the first k members of a row.
LeastY(row, k) ==
    CHOOSE y \in { row.elements[j].bbox.y : j \in 1..k } :
        \A j \in 1..k : y <= row.elements[j].bbox.y

\* Every member but the first joined its row within the threshold of the
\* y_min the row had then, the least y of the members before it, and the
\* row's y_min is the least y of all its members.
JoinedWithin(rows, threshold) ==
    \A r \in DOMAIN rows :
        /\ rows[r].y_min = LeastY(rows[r], Len(rows[r].elements))
        /\ \A k \in 2..Len(rows[r].elements) :
              Abs(rows[r].elements[k].bbox.y - LeastY(rows[r], k - 1)) <= threshold

----------------------------------------------------------------------------
(* remediate() applied to its own output with the same issue list and the  *)
(* same options.                                                           *)

\* Links in one <div>, three of them on lines 11, 31 and 10 units down,
\* one with a positive tabindex, and a <span> without a position.
SameLeaves ==
    { Node("a", NoneStr, <<>>, None, {}, Str_path, Str_Go, NoneStr, <<10, 11, 5, 5>>),
      Node("a", NoneStr, <<>>, None, {}, Str_path, Str_Go, NoneStr, <<0, 31, 5, 5>>),
      Node("a", NoneStr, <<>>, None, {}, Str_path, Str_Go, NoneStr, <<5, 10, 5, 5>>),
      Node("a", NoneStr, <<>>, None, {}, Str_path, Str_Go, Str_3, <<0, 100, 5, 5>>),
      Node("span", NoneStr, <<>>, None, {}, NoneStr, Str_Go, NoneStr, <<>>) }

SameDocs ==
    { TreeSoup(leaves, Len(leaves)) :
        leaves \in { q \in SeqsUpTo(SameLeaves, MaxElements) : Len(q) >= 2 } }

SameInit ==
    /\ html_content \in SameDocs
    /\ soup = html_content
    /\ \E choice \in {"audit", "none", "mismatch"} : issues = IssueList(html_content, choice)
    /\ options \in {EmptyDict, ReorderOff}
    /\ changes = <<>>
    /\ returned = <<>>
    /\ pc = "step1"
    /\ sdoc = <<>> /\ parsed_rules = <<>>
    /\ StyleIdle /\ ContrastIdle /\ SortIdle /\ ManagerIdle

\* remediate() has returned; a new instance is built on the document it
\* returned, with the issue list and the options of the first call.
RemediateSame ==
    /\ pc = "done"
    /\ Len(returned) + 1 < MaxRuns
    /\ html_content' = soup
    /\ changes' = <<>>
    /\ returned' = Append(returned, changes)
    /\ pc' = "step1"
    /\ UNCHANGED <<mvars, svars, cvars, pvars, soup, issues, options>>

SameNext == TabNext \/ RemediateSame

SameSpec == SameInit /\ [][SameNext]_vars

\* C28: remediate() is idempotent on the document: applied to its own
\* output with the same issue list and options it returns that document,
\* with the same child order under every parent and the same tabindex
\* attributes.
C28_SecondRunIsIdentity ==
    (pc = "done" /\ returned # <<>>) => soup = html_content

----------------------------------------------------------------------------
(* AITabOrderValidator.apply_suggestions called on a document with a list  *)
(* of suggestions: msoup is the document passed, validation_result holds   *)
(* the suggestions and tab_order_result what the call returns.             *)

MaxSuggestions == 2

Str_y_id == <<"a", "#", <<"y">>>>

\* Reorderings of button#main and a#x, by a permutation, by a repeated
\* index, by an index past the end and by one before the start, a
\* reordering that names an element the document has not, and changes of
\* tabindex.
SuggestionChoices ==
    { Suggestion("reorder", <<Str_main_id, Str_x_id>>, <<1, 0>>, NoValue),
      Suggestion("reorder", <<Str_main_id, Str_x_id>>, <<0, 0>>, NoValue),
      Suggestion("reorder", <<Str_main_id, Str_x_id>>, <<0, 2>>, NoValue),
      Suggestion("reorder", <<Str_main_id, Str_x_id>>, <<0, -3>>, NoValue),
      Suggestion("reorder", <<Str_main_id, Str_y_id>>, <<1, 0>>, NoValue),
      Suggestion("add_tabindex", <<Str_x_id>>, <<>>, Str_0),
      Suggestion("remove_tabindex", <<Str_main_id>>, <<>>, NoValue) }

SuggestInit ==
    /\ msoup \in ManagerDocs
    /\ bedrock_client = "client"
    /\ given_issues = <<>> /\ tab_order_issues = <<>> /\ results = <<>>
    /\ validation_result = <<>> /\ tab_order_result = <<>>
    /\ mpc = "suggest"
    /\ sdoc = <<>> /\ parsed_rules = <<>>
    /\ StyleIdle /\ ContrastIdle /\ TabIdle /\ SortIdle

\* One call of apply_suggestions(str(msoup), suggestions).
ApplySuggestions ==
    /\ mpc = "suggest"
    /\ \E suggestions \in SeqsUpTo(SuggestionChoices, MaxSuggestions) :
          /\ validation_result' = [suggested_changes |-> suggestions]
          /\ tab_order_result' = apply_suggestions(msoup, suggestions)
    /\ mpc' = "applied"
    /\ UNCHANGED <<svars, cvars, pvars, tvars, msoup, bedrock_client, given_issues,
                   tab_order_issues, results>>

SuggestNext == ApplySuggestions

SuggestSpec == SuggestInit /\ [][SuggestNext]_vars

\* How often element n stands among the children of the document.
Occurrences(sp, n) ==
    Cardinality({ <<p, k>> \in (DOMAIN sp.contents) \X (1..Len(sp.attrs)) :
                     k <= Len(sp.contents[p]) /\ sp.contents[p][k] = n })

\* The parent the element stands under, 0 for the document itself.
ParentIn(sp, n) ==
    CHOOSE p \in DOMAIN sp.contents : \E k \in 1..Len(sp.contents[p]) : sp.contents[p][k] = n

\* Every suggestion of the list that raises leaves the document as it was
\* before it.
RECURSIVE FailuresSkipped(_, _)
FailuresSkipped(state, suggestions) ==
    \/ suggestions = <<>>
    \/ /\ _apply_single_suggestion(state.soup, suggestions[1]).raised =>
             _apply_single_suggestion(state.soup, suggestions[1]).soup = state.soup
       /\ FailuresSkipped(ApplyOne(state, _apply_single_suggestion(state.soup,
                                                                   suggestions[1])),
                          Tail(suggestions))

\* C29: whatever the suggestions, apply_suggestions removes no element
\* from the document, duplicates none and leaves every element under the
\* parent it had, and a suggestion that fails is skipped while the others
\* are applied.
C29_SuggestionsKeepStructure ==
    mpc = "applied" =>
        /\ \A n \in 1..Len(msoup.attrs) :
              /\ Occurrences(tab_order_result.soup, n) = 1
              /\ ParentIn(tab_order_result.soup, n) = ParentIn(msoup, n)
        /\ FailuresSkipped([soup |-> msoup, changes |-> <<>>],
                           validation_result.suggested_changes)

====
